---- MODULE Spec2Model ----
(***************************************************************************)
(* Acquisition side of the USD/GTQ pipeline (src/fx-var-usdgtq/src/io.py): *)
(* the yearly range partitioner, the retrying SOAP transport, the response *)
(* decoder and download_data, which drives them chunk by chunk.            *)
(*                                                                         *)
(* A datetime.date is its proleptic Gregorian ordinal (date.toordinal()),  *)
(* an ISO string "YYYY-MM-DD" is the tuple <<y, m, d>> and a Banguat       *)
(* string "DD/MM/YYYY" is the tuple <<d, m, y>>.  A rate is counted in     *)
(* units of 1e-5 quetzales.                                                *)
(***************************************************************************)
EXTENDS Integers, Sequences, FiniteSets, TLC

VARIABLES
    pc,          \* where download_data stands: idle, inflight, sleep, returned, raised
    start,       \* the parsed start date of the call (io.py:225)
    end,         \* the parsed end date of the call (io.py:226)
    ranges,      \* _iter_yearly_ranges(start, end) (io.py:232)
    chunk,       \* 1-based index in ranges of the chunk being fetched
    attempt,     \* the loop variable of _post_soap_request (io.py:87)
    waits,       \* the delays slept so far in the current _post_soap_request call
    last_error,  \* io.py:86,95
    http_error,  \* <<>> or <<the HTTPError caught last: its status and its body>>
    outstanding, \* the requests handed to urlopen and not yet answered
    nRequests,   \* how many times urlopen was called in this download_data call
    nFailed,     \* how many of those calls raised
    requested,   \* the chunk indices a request was issued for
    decoded,     \* how many chunks were fetched and decoded
    all_rows,    \* io.py:231
    response,    \* <<>> or <<payload>>, the bytes _post_soap_request last returned (io.py:233)
    result,      \* <<>> or <<the DataFrame download_data returned>>
    error,       \* <<>> or <<the exception download_data raised>>
    files,       \* the files on disk: path -> content
    part,        \* <<>> or <<the record of one _iter_yearly_ranges call>>
    call,        \* <<>> or <<the record of the last call of a table function>>
    run,         \* pipeline.run: the calls made, the stage it stands at, what it printed and raised
    save         \* <<>> or <<the save_raw_snapshot call under way, file by file>>

vars == <<pc, start, end, ranges, chunk, attempt, waits, last_error, http_error, outstanding,
          nRequests, nFailed, requested, decoded, all_rows, response, result, error, files, part, call, run, save>>

dlVars == <<pc, start, end, ranges, chunk, attempt, waits, last_error, http_error, outstanding,
            nRequests, nFailed, requested, decoded, all_rows, response, result, error, files>>

-----------------------------------------------------------------------------
(* Program constants (config.py).                                          *)

BANGUAT_WSDL_ENDPOINT == "https://banguat.gob.gt/variables/ws/TipoCambio.asmx"
SOAP_MAX_RETRIES == 8
SOAP_BACKOFF_BASE_SECONDS == 2
SOAP_BACKOFF_MAX_SECONDS == 120
DEFAULT_RAW_FILE == "data/raw/usd_gtq_daily.csv"
RAW_METADATA_FILE == "data/raw/usd_gtq_daily.metadata.json"
DEFAULT_PROCESSED_FILE == "data/processed/fx_rates.parquet"
DEFAULT_NOTIONAL_USD == 10000
FEATURE_LAGS == <<1, 5, 10, 20, 60>>
DEFAULT_TEST_DAYS == 250
REQUIRED_COLUMNS == <<"date", "rate">>
TARGET_COLUMN == "pnl_next_day"

-----------------------------------------------------------------------------
(* datetime.date                                                           *)

Min(a, b) == IF a <= b THEN a ELSE b

IsLeap(y) == (y % 4 = 0) /\ ((y % 100 # 0) \/ (y % 400 = 0))

DaysInMonth(y, m) ==
    IF m = 2 THEN (IF IsLeap(y) THEN 29 ELSE 28)
    ELSE IF m \in {4, 6, 9, 11} THEN 30 ELSE 31

DaysBeforeYear(y) ==
    LET p == y - 1 IN p * 365 + (p \div 4) - (p \div 100) + (p \div 400)

RECURSIVE DaysBeforeMonth(_, _)
DaysBeforeMonth(y, m) ==
    IF m <= 1 THEN 0 ELSE DaysBeforeMonth(y, m - 1) + DaysInMonth(y, m - 1)

\* Whether (y, m, d) names a day of the calendar: date(y, m, d) raises otherwise.
IsValidYMD(y, m, d) ==
    /\ y >= 1
    /\ m \in 1..12
    /\ d >= 1
    /\ d <= DaysInMonth(y, m)

\* date(y, m, d)
MakeDate(y, m, d) == DaysBeforeYear(y) + DaysBeforeMonth(y, m) + d

\* value.year
YearOf(o) ==
    LET y0 == ((o * 400) \div 146097) + 1
    IN  IF o <= DaysBeforeYear(y0) THEN y0 - 1
        ELSE IF o > DaysBeforeYear(y0 + 1) THEN y0 + 1
        ELSE y0

RECURSIVE MonthFrom(_, _, _)
MonthFrom(y, n, m) ==
    IF n <= DaysInMonth(y, m) THEN m ELSE MonthFrom(y, n - DaysInMonth(y, m), m + 1)

\* value.month
MonthOf(o) == LET y == YearOf(o) IN MonthFrom(y, o - DaysBeforeYear(y), 1)

\* value.day
DayOf(o) ==
    LET y == YearOf(o) IN o - DaysBeforeYear(y) - DaysBeforeMonth(y, MonthOf(o))

\* value.isoformat(), str(value), strftime("%Y-%m-%d")
IsoFormat(o) == <<YearOf(o), MonthOf(o), DayOf(o)>>

\* _format_ddmmyyyy
format_ddmmyyyy(o) == <<DayOf(o), MonthOf(o), YearOf(o)>>

\* datetime.strptime(value, "%Y-%m-%d").date(): defined where CanParseIso holds
CanParseIso(s) == IsValidYMD(s[1], s[2], s[3])
ParseIso(s) == MakeDate(s[1], s[2], s[3])

\* datetime.strptime(raw, "%d/%m/%Y").date(): defined where CanParseDmy holds
CanParseDmy(s) == IsValidYMD(s[3], s[2], s[1])
ParseDmy(s) == MakeDate(s[3], s[2], s[1])

-----------------------------------------------------------------------------
(* Range Partitioner: _iter_yearly_ranges                                  *)

\* The partitioner with the cursor advanced two days instead of one.
RECURSIVE iter_yearly_ranges_skip(_, _)
iter_yearly_ranges_skip(cursor, last) ==
    IF cursor <= last
    THEN LET year_end == MakeDate(YearOf(cursor), 12, 31)
             chunk_end == Min(year_end, last)
         IN  <<<<cursor, chunk_end>>>> \o iter_yearly_ranges_skip(chunk_end + 2, last)
    ELSE <<>>

\* The partitioner cutting at the requested end only, never at a year's end.
iter_yearly_ranges_whole(cursor, last) ==
    IF cursor <= last THEN <<<<cursor, last>>>> ELSE <<>>

RECURSIVE iter_yearly_ranges(_, _)
iter_yearly_ranges(cursor, last) ==
    IF cursor <= last
    THEN LET year_end == MakeDate(YearOf(cursor), 12, 31)
             chunk_end == Min(year_end, last)
         IN  <<<<cursor, chunk_end>>>> \o iter_yearly_ranges(chunk_end + 1, last)
    ELSE <<>>

-----------------------------------------------------------------------------
(* SOAP Transport: _build_soap_envelope, _post_soap_request                *)

\* The exceptions of one urlopen attempt that the except clause names.
CaughtErrors == {"HTTPError", "URLError", "TimeoutError"}

\* Any other exception of an attempt: no clause names it, so it propagates.
OtherErrors == {"OtherError"}

\* The request of one chunk: the endpoint and the two dates of the envelope.
build_soap_envelope(c) ==
    [url |-> BANGUAT_WSDL_ENDPOINT,
     fechainit |-> format_ddmmyyyy(c[1]),
     fechafin |-> format_ddmmyyyy(c[2])]

RECURSIVE Pow2(_)
Pow2(n) == IF n <= 0 THEN 1 ELSE 2 * Pow2(n - 1)

\* The delay without the ceiling.
backoff_delay_uncapped(k) == SOAP_BACKOFF_BASE_SECONDS * Pow2(k - 1)

\* delay_seconds after failed attempt k
backoff_delay(k) ==
    Min(SOAP_BACKOFF_BASE_SECONDS * Pow2(k - 1), SOAP_BACKOFF_MAX_SECONDS)

\* Giving up one attempt early.
retries_exhausted_early(k) == k >= SOAP_MAX_RETRIES - 1

\* if attempt >= SOAP_MAX_RETRIES
retries_exhausted(k) == k >= SOAP_MAX_RETRIES

\* An exception as the model keeps it: what its message names and its cause.
\*   endpoint  the endpoint, "" when the message does not name it
\*   from, to  the two dates of the message as ISO strings
\*   attempts  the attempt count of the message, 0 when it names none
\*   quoted    <<>> or <<the text the message quotes>>
\*   cause     the exception it was raised from, "" when none
Exc(type, kind, endpoint, from, to, attempts, quoted, cause) ==
    [type |-> type, kind |-> kind, endpoint |-> endpoint, from |-> from, to |-> to,
     attempts |-> attempts, quoted |-> quoted, cause |-> cause]

\* The RuntimeError after the last failed attempt.
TransportError(c, exc) ==
    Exc("RuntimeError", "transport", BANGUAT_WSDL_ENDPOINT,
        IsoFormat(c[1]), IsoFormat(c[2]), SOAP_MAX_RETRIES, <<exc>>, exc)

-----------------------------------------------------------------------------
(* Response Decoder: _extract_rows_from_payload                            *)
(*                                                                         *)
(* A payload is a record                                                   *)
(*   wellformed  whether ET.fromstring parses it                           *)
(*   fault       <<>> or <<f>>: the first soap:Fault element below the     *)
(*               root, f.faultstring being <<>> (no faultstring child) or  *)
(*               <<its text>>                                              *)
(*   vars        the Var elements in document order, each with fecha and   *)
(*               venta being <<>> (no such child) or <<its text>>          *)
(***************************************************************************)

\* float(raw_rate.strip()): <<>> where float raises ValueError
ParseFloat(text) ==
    CASE text = "7.50000" -> <<750000>>
      [] text = "7.80000" -> <<780000>>
      [] OTHER -> <<>>

DecodeOk(rows) == [ok |-> TRUE, rows |-> rows, error |-> <<>>]
DecodeError(e) == [ok |-> FALSE, rows |-> <<>>, error |-> <<e>>]

\* fault.findtext("faultstring") or "Unknown SOAP fault."
fault_message(f) ==
    IF f.faultstring = <<>> \/ f.faultstring = <<"">>
    THEN "Unknown SOAP fault."
    ELSE f.faultstring[1]

\* One pass of the loop over the Var elements, from element i on.
RECURSIVE extract_rows_from(_, _, _, _, _)
extract_rows_from(nodes, i, rows, cs, ce) ==
    IF i > Len(nodes) THEN DecodeOk(rows)
    ELSE LET node == nodes[i] IN
         IF node.fecha = <<>> \/ node.venta = <<>>
         THEN DecodeError(Exc("RuntimeError", "missing_field", "",
                              IsoFormat(cs), IsoFormat(ce), 0, <<>>, ""))
         ELSE IF ~CanParseDmy(node.fecha[1])
         THEN DecodeError(Exc("RuntimeError", "bad_fecha", "",
                              IsoFormat(cs), IsoFormat(ce), 0, node.fecha, "ValueError"))
         ELSE IF ParseFloat(node.venta[1]) = <<>>
         THEN DecodeError(Exc("RuntimeError", "bad_venta", "",
                              IsoFormat(cs), IsoFormat(ce), 0, node.venta, "ValueError"))
         ELSE extract_rows_from(
                  nodes, i + 1,
                  Append(rows, [date |-> IsoFormat(ParseDmy(node.fecha[1])),
                                rate |-> ParseFloat(node.venta[1])[1]]),
                  cs, ce)

\* The fault error without the endpoint in its message.
FaultError_no_endpoint(f, cs, ce) ==
    Exc("RuntimeError", "fault", "", IsoFormat(cs), IsoFormat(ce), 0,
        <<fault_message(f)>>, "")

\* io.py:129-133
FaultError(f, cs, ce) ==
    Exc("RuntimeError", "fault", BANGUAT_WSDL_ENDPOINT, IsoFormat(cs), IsoFormat(ce), 0,
        <<fault_message(f)>>, "")

\* The decoder with the fault looked for after the rows.
extract_rows_rows_first(payload, cs, ce) ==
    IF ~payload.wellformed
    THEN DecodeError(Exc("RuntimeError", "invalid_xml", BANGUAT_WSDL_ENDPOINT,
                         IsoFormat(cs), IsoFormat(ce), 0, <<>>, "ParseError"))
    ELSE LET got == extract_rows_from(payload.vars, 1, <<>>, cs, ce) IN
         IF got.ok /\ got.rows = <<>> /\ payload.fault # <<>>
         THEN DecodeError(FaultError(payload.fault[1], cs, ce))
         ELSE got

extract_rows_from_payload(payload, cs, ce) ==
    IF ~payload.wellformed
    THEN DecodeError(Exc("RuntimeError", "invalid_xml", BANGUAT_WSDL_ENDPOINT,
                         IsoFormat(cs), IsoFormat(ce), 0, <<>>, "ParseError"))
    ELSE IF payload.fault # <<>>
    THEN DecodeError(FaultError(payload.fault[1], cs, ce))
    ELSE extract_rows_from(payload.vars, 1, <<>>, cs, ce)

-----------------------------------------------------------------------------
(* Snapshot Store: _coerce_strict_types, drop_duplicates, download_data    *)

Injective(f) == \A i, j \in DOMAIN f : f[i] = f[j] => i = j

Permutations1(n) == {p \in [1..n -> 1..n] : Injective(p)}

\* pd.to_datetime / pd.to_numeric over the decoded rows: dates become timestamps
to_frame(rows) ==
    [i \in 1..Len(rows) |-> [date |-> ParseIso(rows[i].date), rate |-> rows[i].rate]]

IsSortedByDate(df) == \A i \in 1..(Len(df) - 1) : df[i].date <= df[i + 1].date

\* The orders a stable sort by date can leave: rows of one date keep their order.
sort_values_stable(df) ==
    {[i \in 1..Len(df) |-> df[p[i]]] : p \in
        {q \in Permutations1(Len(df)) :
            /\ IsSortedByDate([i \in 1..Len(df) |-> df[q[i]]])
            /\ \A i, j \in 1..Len(df) :
                 (i < j /\ df[q[i]].date = df[q[j]].date) => q[i] < q[j]}}

\* converted.sort_values("date"): kind defaults to "quicksort", which pandas and
\* numpy document as not stable, so rows of one date may come out in any order.
sort_values(df) ==
    {[i \in 1..Len(df) |-> df[p[i]]] : p \in
        {q \in Permutations1(Len(df)) :
            IsSortedByDate([i \in 1..Len(df) |-> df[q[i]]])}}

\* _coerce_strict_types: every frame it may return
coerce_strict_types(rows) == sort_values(to_frame(rows))

RECURSIVE KeepIf(_, _, _)
KeepIf(df, i, keep) ==
    IF i > Len(df) THEN <<>>
    ELSE (IF keep[i] THEN <<df[i]>> ELSE <<>>) \o KeepIf(df, i + 1, keep)

\* df.drop_duplicates(subset=["date"], keep="last")
drop_duplicates_last(df) ==
    KeepIf(df, 1, [i \in 1..Len(df) |->
                      ~\E j \in 1..Len(df) : j > i /\ df[j].date = df[i].date])

\* The DataFrame download_data returns, with its attrs.
Table(rows, s, e) ==
    [rows |-> rows,
     attrs |-> [requested_start_date |-> IsoFormat(s),
                requested_end_date |-> IsoFormat(e)]]

-----------------------------------------------------------------------------
(* pandas.DataFrame as the table functions of io.py and features.py see it *)
(*                                                                         *)
(* A frame is [columns |-> the column names in order, rows |-> the rows],  *)
(* a row being a record with one cell per column.  A cell of a date column *)
(* is a text "YYYY-MM-DD" (DateText), a timestamp (Timestamp) or missing   *)
(* (NaT); a cell of a rate column is a text (RateText), a float (Float) or *)
(* missing (NaN).                                                          *)

DataFrame(columns, rows) == [columns |-> columns, rows |-> rows]

DateText(ymd) == [k |-> "str", v |-> ymd]
Timestamp(o) == [k |-> "ts", v |-> <<o>>]
NaT == [k |-> "na", v |-> <<>>]

RateText(t) == [k |-> "str", s |-> t, n |-> 0]
Float(n) == [k |-> "num", s |-> "", n |-> n]
NaN == [k |-> "na", s |-> "", n |-> 0]

Cols(df) == {df.columns[i] : i \in 1..Len(df.columns)}

\* the values of a column or the rows of a frame, each worked out once
Values(col) == SelectSeq(col, LAMBDA x : TRUE)

\* pd.to_datetime(column, errors="raise"), cell by cell
can_to_datetime(c) == c.k = "str" => CanParseIso(c.v)

\* A timestamp taken for local time and moved to UTC, to the day before.
to_datetime_utc(c) ==
    IF c.k = "str" THEN Timestamp(ParseIso(c.v))
    ELSE IF c.k = "ts" THEN Timestamp(c.v[1] - 1) ELSE c

to_datetime(c) == IF c.k = "str" THEN Timestamp(ParseIso(c.v)) ELSE c

\* pd.to_numeric(column, errors="raise"), cell by cell
can_to_numeric(c) == c.k = "str" => ParseFloat(c.s) # <<>>
to_numeric(c) == IF c.k = "str" THEN Float(ParseFloat(c.s)[1]) ELSE c

\* converted["date"] = to_datetime(...); converted["rate"] = to_numeric(...)
can_convert(rows) ==
    \A i \in 1..Len(rows) : can_to_datetime(rows[i].date) /\ can_to_numeric(rows[i].rate)
convert(rows) ==
    Values([i \in 1..Len(rows) |->
               [rows[i] EXCEPT !.date = to_datetime(@), !.rate = to_numeric(@)]])

\* dates compare as timestamps; sort_values puts a missing date last
BeforeOrAt(a, b) == b.k = "na" \/ (a.k = "ts" /\ a.v[1] <= b.v[1])

\* the places a row can take in rows already sorted by date
insert_sorted(row, sorted) ==
    {SubSeq(sorted, 1, j) \o <<row>> \o SubSeq(sorted, j + 1, Len(sorted)) :
        j \in {i \in 0..Len(sorted) :
                 /\ i >= 1 => BeforeOrAt(sorted[i].date, row.date)
                 /\ i < Len(sorted) => BeforeOrAt(row.date, sorted[i + 1].date)}}

\* Series.duplicated().any() of the date column
has_duplicated(rows) == \E i, j \in 1..Len(rows) : i < j /\ rows[i].date = rows[j].date

\* the rows sorted by date when no date is there twice: a row goes to the
\* place after the rows of an earlier date
sort_unique(rows) ==
    LET place == SelectSeq([i \in 1..Len(rows) |->
                               1 + Cardinality({j \in 1..Len(rows) :
                                       ~BeforeOrAt(rows[i].date, rows[j].date)})],
                           LAMBDA p : TRUE)
    IN  SelectSeq([p \in 1..Len(rows) |-> rows[CHOOSE i \in 1..Len(rows) : place[i] = p]],
                  LAMBDA r : TRUE)

\* the rows sorted by date in every order that keeps the dates ascending
RECURSIVE sort_ties(_)
sort_ties(rows) ==
    IF rows = <<>> THEN {<<>>}
    ELSE UNION {insert_sorted(rows[Len(rows)], s) :
                  s \in sort_ties(SubSeq(rows, 1, Len(rows) - 1))}

\* sort_values("date").reset_index(drop=True) on a frame's rows: every order
\* sorted by date, rows of one date in any order (kind="quicksort" is not stable)
sort_rows(rows) ==
    IF has_duplicated(rows) THEN sort_ties(rows) ELSE {sort_unique(rows)}

\* drop_duplicates(subset=["date"], keep="last").reset_index(drop=True)
drop_duplicates_rows(rows) ==
    LET kept == SelectSeq([i \in 1..Len(rows) |-> i],
                          LAMBDA i : ~\E j \in (i + 1)..Len(rows) : rows[j].date = rows[i].date)
    IN  Values([i \in 1..Len(kept) |-> rows[kept[i]]])

\* Series.is_monotonic_increasing of the date column
is_monotonic_increasing(rows) ==
    \A i \in 1..(Len(rows) - 1) :
        /\ rows[i].date.k = "ts" /\ rows[i + 1].date.k = "ts"
        /\ rows[i].date.v[1] <= rows[i + 1].date.v[1]

\* what a table function gives back: a value, or the exception it raised
Returned(v) == [ok |-> TRUE, out |-> <<v>>, error |-> "", names |-> <<>>]
Failed(e, names) == [ok |-> FALSE, out |-> <<>>, error |-> e, names |-> names]

-----------------------------------------------------------------------------
(* Snapshot Store on disk: save_raw_snapshot, load_raw, save_processed,    *)
(* load_processed and the metadata sidecar                                 *)
(*                                                                         *)
(* The disk is a function from paths to file contents.  A CSV file is its  *)
(* header and its lines, a field being <<>> when empty and <<its text>>    *)
(* otherwise: a date text is <<y, m, d>> and a number text is the digits   *)
(* before and after the point.  A Parquet file holds typed columns.  The   *)
(* sidecar is the JSON object without retrieved_at_utc, the wall clock.    *)

DEFAULT_DOWNLOAD_START_DATE == <<1900, 1, 1>>
DEFAULT_DOWNLOAD_END_DATE == <<2026, 2, 22>>

\* how many rate units make one quetzal
RateUnit == 100000

\* the decimal places of a rate unit
RateDigits == 5

RECURSIVE digits(_, _)
digits(n, width) ==
    IF width = 0 THEN <<>> ELSE digits(n \div 10, width - 1) \o <<n % 10>>

RECURSIVE rstrip_zeros(_)
rstrip_zeros(ds) ==
    IF Len(ds) > 1 /\ ds[Len(ds)] = 0
    THEN rstrip_zeros(SubSeq(ds, 1, Len(ds) - 1)) ELSE ds

RECURSIVE number(_)
number(ds) ==
    IF ds = <<>> THEN 0
    ELSE 10 * number(SubSeq(ds, 1, Len(ds) - 1)) + ds[Len(ds)]

\* repr(float), what to_csv writes for a float: the shortest digits that read
\* back as the same float, 7.5 for 7.50000
repr_float(n) ==
    [whole |-> n \div RateUnit, frac |-> rstrip_zeros(digits(n % RateUnit, RateDigits))]

\* the float read_csv reads from a number text
float_of(t) ==
    t.whole * RateUnit
        + number(t.frac \o [i \in 1..(RateDigits - Len(t.frac)) |-> 0])

\* Series.dt.strftime with day and month exchanged, "%Y-%d-%m"
strftime_day_first(c) ==
    IF c.k = "ts"
    THEN LET ymd == IsoFormat(c.v[1]) IN <<<<ymd[1], ymd[3], ymd[2]>>>>
    ELSE <<>>

\* csv_ready["date"].dt.strftime("%Y-%m-%d"), cell by cell: NaT gives a
\* missing value, which to_csv writes as an empty field
strftime(c) == IF c.k = "ts" THEN <<IsoFormat(c.v[1])>> ELSE <<>>

\* csv_ready.to_csv(out_path, index=False): the content of the file
to_csv(df) ==
    [kind |-> "csv",
     header |-> df.columns,
     lines |-> Values([i \in DOMAIN df.rows |->
                  [date |-> strftime(df.rows[i].date),
                   rate |-> IF df.rows[i].rate.k = "num"
                            THEN <<repr_float(df.rows[i].rate.n)>> ELSE <<>>]])]

\* pd.read_csv(raw_path): dates stay text, numbers become floats
read_csv(content) ==
    DataFrame(content.header,
              Values([i \in DOMAIN content.lines |->
                  [date |-> IF content.lines[i].date = <<>> THEN NaT
                            ELSE DateText(content.lines[i].date[1]),
                   rate |-> IF content.lines[i].rate = <<>> THEN NaN
                            ELSE Float(float_of(content.lines[i].rate[1]))]]))

\* normalized.to_parquet(out_path, index=False): columns with their types
to_parquet(df) == [kind |-> "parquet", columns |-> df.columns, rows |-> df.rows]

\* pd.read_parquet(processed_path)
read_parquet(content) == DataFrame(content.columns, content.rows)

\* _validate_strict_schema passes
validate_strict_schema(df) == df.columns = REQUIRED_COLUMNS

\* _coerce_strict_types(df) of a frame: every outcome it can have
coerce_strict_types_frame(df) ==
    IF can_convert(df.rows)
    THEN {Returned(DataFrame(df.columns, rows)) : rows \in sort_rows(convert(df.rows))}
    ELSE {Failed("Raw/processed data types are invalid", <<>>)}

\* _compute_sha256(file_path): a digest stands for the bytes it was made of
compute_sha256(content) == [sha256_of |-> content]

\* the dates of a frame that are not missing
dates_of(df) ==
    {df.rows[i].date.v[1] : i \in {j \in DOMAIN df.rows : df.rows[j].date.k = "ts"}}

\* df["date"].min().date().isoformat(); <<>> stands for "NaT"
min_date(df) ==
    IF dates_of(df) = {} THEN <<>>
    ELSE IsoFormat(CHOOSE d \in dates_of(df) : \A o \in dates_of(df) : d <= o)

\* df["date"].max().date().isoformat()
max_date(df) ==
    IF dates_of(df) = {} THEN <<>>
    ELSE IsoFormat(CHOOSE d \in dates_of(df) : \A o \in dates_of(df) : d >= o)

\* Path.parent of the paths in use
parent(path) ==
    CASE path \in {DEFAULT_RAW_FILE, RAW_METADATA_FILE} -> "data/raw"
      [] path = DEFAULT_PROCESSED_FILE -> "data/processed"
      [] OTHER -> "tmp"

\* the disk after a file is written
write_file(fs, path, content) ==
    [q \in DOMAIN fs \cup {path} |-> IF q = path THEN content ELSE fs[q]]

\* the object _write_raw_metadata dumps; attrs is <<>> or <<df.attrs>>
raw_metadata(fs, csv_path, df, attrs) ==
    [kind |-> "json",
     source_endpoint |-> BANGUAT_WSDL_ENDPOINT,
     requested_start_date |-> IF attrs = <<>> THEN DEFAULT_DOWNLOAD_START_DATE
                              ELSE attrs[1].requested_start_date,
     requested_end_date |-> IF attrs = <<>> THEN DEFAULT_DOWNLOAD_END_DATE
                            ELSE attrs[1].requested_end_date,
     row_count |-> Len(df.rows),
     min_date |-> min_date(df),
     max_date |-> max_date(df),
     schema |-> REQUIRED_COLUMNS,
     sha256 |-> compute_sha256(fs[csv_path])]

\* _write_raw_metadata(csv_path, df): the disk after it
write_raw_metadata(fs, csv_path, df, attrs) ==
    write_file(fs, RAW_METADATA_FILE, raw_metadata(fs, csv_path, df, attrs))

\* what a call leaves: the disk and what it returned or raised
Effect(fs, outcome) == [files |-> fs, outcome |-> outcome]

\* save_raw_snapshot(df, path) on the disk fs: every effect it can have;
\* path is <<>> for None
save_raw_snapshot(fs, df, attrs, path) ==
    IF ~validate_strict_schema(df)
    THEN {Effect(fs, Failed("Strict schema required", <<>>))}
    ELSE LET out_path == IF path = <<>> THEN DEFAULT_RAW_FILE ELSE path[1]
         IN  {IF ~normalized.ok THEN Effect(fs, normalized)
              ELSE Effect(write_raw_metadata(
                              write_file(fs, out_path, to_csv(normalized.out[1])),
                              out_path, normalized.out[1], attrs),
                          Returned(out_path))
                 : normalized \in coerce_strict_types_frame(df)}

\* load_raw(path) on the disk fs: every outcome it can have
load_raw(fs, path) ==
    LET raw_path == IF path = <<>> THEN DEFAULT_RAW_FILE ELSE path[1]
    IN  IF raw_path \notin DOMAIN fs
        THEN {Failed("Raw data file not found", <<>>)}
        ELSE IF ~validate_strict_schema(read_csv(fs[raw_path]))
        THEN {Failed("Strict schema required", <<>>)}
        ELSE coerce_strict_types_frame(read_csv(fs[raw_path]))

\* save_processed(df, path) on the disk fs: every effect it can have
save_processed(fs, df, path) ==
    IF ~validate_strict_schema(df)
    THEN {Effect(fs, Failed("Strict schema required", <<>>))}
    ELSE LET out_path == IF path = <<>> THEN DEFAULT_PROCESSED_FILE ELSE path[1]
         IN  {IF ~normalized.ok THEN Effect(fs, normalized)
              ELSE Effect(write_file(fs, out_path, to_parquet(normalized.out[1])),
                          Returned(out_path))
                 : normalized \in coerce_strict_types_frame(df)}

\* load_processed(path) on the disk fs: every outcome it can have
load_processed(fs, path) ==
    LET processed_path == IF path = <<>> THEN DEFAULT_PROCESSED_FILE ELSE path[1]
    IN  IF processed_path \notin DOMAIN fs
        THEN {Failed("Processed data file not found", <<>>)}
        ELSE IF ~validate_strict_schema(read_parquet(fs[processed_path]))
        THEN {Failed("Strict schema required", <<>>)}
        ELSE coerce_strict_types_frame(read_parquet(fs[processed_path]))

-----------------------------------------------------------------------------
(* features.py: clean, build_features, train_test_split_time               *)
(*                                                                         *)
(* A float is kept to three decimals: Float(n) stands for n / 1000 in the  *)
(* columns build_features adds, and for n / 100000 in the rate column.     *)

ColumnsOf(cols, row) == [c \in cols |-> row[c]]

\* the checks clean makes on the sorted, deduplicated rows (features.py:50-59)
clean_checks(rows) ==
    IF rows = <<>> THEN Failed("No rows remain after cleaning.", <<>>)
    ELSE IF \E i \in 1..Len(rows) : rows[i].rate.k = "num" /\ rows[i].rate.n <= 0
    THEN Failed("All rates must be strictly positive for return calculations.", <<>>)
    ELSE IF ~is_monotonic_increasing(rows)
    THEN Failed("Dates must be sorted ascending after cleaning.", <<>>)
    ELSE IF has_duplicated(rows)
    THEN Failed("Dates must be unique after cleaning.", <<>>)
    ELSE Returned(DataFrame(REQUIRED_COLUMNS, rows))

\* Every required column named as missing when one is.
missing_columns_all(df) ==
    IF \E i \in 1..Len(REQUIRED_COLUMNS) : REQUIRED_COLUMNS[i] \notin Cols(df)
    THEN REQUIRED_COLUMNS ELSE <<>>

\* [col for col in REQUIRED_INPUT_COLUMNS if col not in df.columns]
missing_columns(df) == SelectSeq(REQUIRED_COLUMNS, LAMBDA c : c \notin Cols(df))

\* clean(df): every outcome the call can have
clean(df) ==
    LET missing == missing_columns(df)
        selected == Values([i \in 1..Len(df.rows) |->
                               ColumnsOf({"date", "rate"}, df.rows[i])])
        cleaned == SelectSeq(selected, LAMBDA r : r.date.k # "na" /\ r.rate.k # "na")
    IN  IF missing # <<>>
        THEN {Failed("Input data is missing required columns", missing)}
        ELSE IF ~can_convert(cleaned)
        THEN {Failed("Input data has invalid types.", <<>>)}
        ELSE {clean_checks(drop_duplicates_rows(sorted)) : sorted \in sort_rows(convert(cleaned))}

\* floats are kept to this many parts of one
Milli == 1000

\* sorted(set(lags))
RECURSIVE sorted_set(_)
sorted_set(S) ==
    IF S = {} THEN <<>>
    ELSE LET m == CHOOSE x \in S : \A y \in S : x <= y
         IN  <<m>> \o sorted_set(S \ {m})

\* _validate_lags: <<>> where it raises
validate_lags(lags) ==
    IF lags = <<>> \/ \E i \in 1..Len(lags) : lags[i] <= 0
    THEN <<>>
    ELSE <<sorted_set({lags[i] : i \in 1..Len(lags)})>>

\* the square root, rounded down
isqrt(n) == CHOOSE r \in 0..n : r * r <= n /\ (r + 1) * (r + 1) > n

RECURSIVE sum_floats(_, _, _)
sum_floats(col, from, to) ==
    IF from > to THEN 0 ELSE col[from].n + sum_floats(col, from + 1, to)

\* Series.shift(periods)
shift(col, periods) ==
    [t \in DOMAIN col |->
        IF t - periods \in DOMAIN col THEN col[t - periods] ELSE NaN]

window_is_full(col, t, window) ==
    /\ t - window + 1 >= 1
    /\ \A u \in (t - window + 1)..t : col[u].k # "na"

\* The rolling mean over the rows from t on instead of the rows up to t.
rolling_mean_forward(col, window) ==
    [t \in DOMAIN col |->
        IF t + window - 1 \in DOMAIN col /\ \A u \in t..(t + window - 1) : col[u].k # "na"
        THEN Float(sum_floats(col, t, t + window - 1) \div window)
        ELSE NaN]

\* Series.rolling(window=lag, min_periods=lag).mean()
rolling_mean(col, window) ==
    [t \in DOMAIN col |->
        IF window_is_full(col, t, window)
        THEN Float(sum_floats(col, t - window + 1, t) \div window)
        ELSE NaN]

\* Series.rolling(window=lag, min_periods=lag).std(ddof=0)
rolling_std(col, window) ==
    [t \in DOMAIN col |->
        IF window_is_full(col, t, window)
        THEN LET total == sum_floats(col, t - window + 1, t)
                 \* window * window times the variance
                 spread == sum_floats([u \in DOMAIN col |->
                                          Float((window * col[u].n - total)
                                                * (window * col[u].n - total))],
                                      t - window + 1, t)
             IN  Float(isqrt(spread \div window) \div window)
        ELSE NaN]

\* features["rate"] / features["rate"].shift(1) - 1.0
return_simple(rows) ==
    [t \in 1..Len(rows) |->
        IF t = 1 THEN NaN
        ELSE Float((rows[t].rate.n * Milli) \div rows[t - 1].rate.n - Milli)]

\* np.log(features["rate"] / features["rate"].shift(1)), by the first term of
\* ln(a / b) = 2 artanh((a - b) / (a + b)), which is exact to three decimals
\* for the quotients of two exchange rates
return_log(rows) ==
    [t \in 1..Len(rows) |->
        IF t = 1 THEN NaN
        ELSE Float((2 * Milli * (rows[t].rate.n - rows[t - 1].rate.n))
                   \div (rows[t].rate.n + rows[t - 1].rate.n))]

\* notional_usd * features["return_simple"]
pnl(rows, notional_usd) ==
    [t \in 1..Len(rows) |->
        IF return_simple(rows)[t].k = "na" THEN NaN
        ELSE Float(notional_usd * return_simple(rows)[t].n)]

\* The target taken one row back instead of one row ahead.
pnl_next_day_backward(rows, notional_usd) == shift(pnl(rows, notional_usd), 1)

\* features["pnl"].shift(-1)
pnl_next_day(rows, notional_usd) == shift(pnl(rows, notional_usd), -1)

\* (features["date"].dt.dayofweek >= 5).astype(int); ordinal 1 is a Monday
dayofweek(o) == (o + 6) % 7
is_weekend(rows) ==
    [t \in 1..Len(rows) |-> Float(IF dayofweek(rows[t].date.v[1]) >= 5 THEN 1 ELSE 0)]

LagColumns(lag) ==
    <<"return_simple_lag_" \o ToString(lag), "return_log_lag_" \o ToString(lag),
      "pnl_lag_" \o ToString(lag), "roll_mean_return_simple_" \o ToString(lag),
      "roll_vol_return_simple_" \o ToString(lag)>>

RECURSIVE AllLagColumns(_)
AllLagColumns(lags) ==
    IF lags = <<>> THEN <<>> ELSE LagColumns(Head(lags)) \o AllLagColumns(Tail(lags))

BaseColumns ==
    <<"date", "rate", "return_simple", "return_log", "pnl", "pnl_next_day", "is_weekend">>

\* the columns of one lag, features.py:80-89
lag_cell(rows, notional_usd, lag, which, t) ==
    CASE which = 1 -> shift(return_simple(rows), lag)[t]
      [] which = 2 -> shift(return_log(rows), lag)[t]
      [] which = 3 -> shift(pnl(rows, notional_usd), lag)[t]
      [] which = 4 -> rolling_mean(return_simple(rows), lag)[t]
      [] which = 5 -> rolling_std(return_simple(rows), lag)[t]

\* a column of the frame of features.py:74-89
column(rows, notional_usd, lags, c) ==
    CASE c = "date" -> [t \in 1..Len(rows) |-> rows[t].date]
      [] c = "rate" -> [t \in 1..Len(rows) |-> rows[t].rate]
      [] c = "return_simple" -> return_simple(rows)
      [] c = "return_log" -> return_log(rows)
      [] c = "pnl" -> pnl(rows, notional_usd)
      [] c = "pnl_next_day" -> pnl_next_day(rows, notional_usd)
      [] c = "is_weekend" -> is_weekend(rows)
      [] OTHER ->
           LET j == CHOOSE i \in 1..Len(lags) : \E w \in 1..5 : LagColumns(lags[i])[w] = c
               w == CHOOSE w \in 1..5 : LagColumns(lags[j])[w] = c
           IN  [t \in 1..Len(rows) |-> lag_cell(rows, notional_usd, lags[j], w, t)]

\* the frame of features.py:74-89, before the rows with a missing value go
with_features(rows, notional_usd, lags) ==
    LET columns == BaseColumns \o AllLagColumns(lags)
        values == Values([j \in 1..Len(columns) |->
                             Values(column(rows, notional_usd, lags, columns[j]))])
        at(c) == CHOOSE j \in 1..Len(columns) : columns[j] = c
    IN  DataFrame(columns,
                  Values([t \in 1..Len(rows) |->
                            [c \in {columns[i] : i \in 1..Len(columns)} |-> values[at(c)][t]]]))

isna_row(df, row) == \E c \in Cols(df) : row[c].k = "na"

\* Only the rows without a target dropped, as dropna(subset=["pnl_next_day"]).
dropna_target_only(df) ==
    DataFrame(df.columns, SelectSeq(df.rows, LAMBDA r : r.pnl_next_day.k # "na"))

\* DataFrame.dropna().reset_index(drop=True)
dropna(df) == DataFrame(df.columns, SelectSeq(df.rows, LAMBDA r : ~isna_row(df, r)))

\* The checks without the one on an empty frame.
features_checks_allow_empty(features) ==
    IF \E i \in 1..Len(features.rows) : isna_row(features, features.rows[i])
    THEN Failed("Feature frame contains NaNs after cleanup.", <<>>)
    ELSE IF ~is_monotonic_increasing(features.rows)
    THEN Failed("Feature dates must remain sorted ascending.", <<>>)
    ELSE IF has_duplicated(features.rows)
    THEN Failed("Feature dates must remain unique.", <<>>)
    ELSE Returned(features)

\* the checks build_features makes on the frame it is about to return (93-105)
features_checks(features) ==
    IF features.rows = <<>>
    THEN Failed("Insufficient rows after lag/rolling/target construction.", <<>>)
    ELSE IF \E i \in 1..Len(features.rows) : isna_row(features, features.rows[i])
    THEN Failed("Feature frame contains NaNs after cleanup.", <<>>)
    ELSE IF ~is_monotonic_increasing(features.rows)
    THEN Failed("Feature dates must remain sorted ascending.", <<>>)
    ELSE IF has_duplicated(features.rows)
    THEN Failed("Feature dates must remain unique.", <<>>)
    ELSE Returned(features)

\* build_features(df, notional_usd, lags): every outcome the call can have
build_features(df, notional_usd, lags) ==
    IF df.columns # REQUIRED_COLUMNS
    THEN {Failed("build_features requires strict input columns in this order: date, rate.", <<>>)}
    ELSE IF notional_usd <= 0
    THEN {Failed("notional_usd must be strictly positive.", <<>>)}
    ELSE IF validate_lags(lags) = <<>>
    THEN {Failed("lags must be positive integers, at least one.", <<>>)}
    ELSE {IF cleaned.ok
          THEN features_checks(dropna(with_features(cleaned.out[1].rows, notional_usd,
                                                    validate_lags(lags)[1])))
          ELSE cleaned : cleaned \in clean(df)}

\* The size check letting through a frame of exactly test_days rows.
too_few_rows_strict(df, test_days) == Len(df.rows) < test_days

\* len(df) <= test_days
too_few_rows(df, test_days) == Len(df.rows) <= test_days

\* The split placed test_days rows from the start.
split_idx_from_start(df, test_days) == test_days

\* split_idx = len(df) - test_days
split_idx(df, test_days) == Len(df.rows) - test_days

\* train_test_split_time(df, test_days, target_col)
train_test_split_time(df, test_days, target_col) ==
    IF target_col \notin Cols(df)
    THEN Failed("target_col is not present in feature frame.", <<target_col>>)
    ELSE IF test_days <= 0
    THEN Failed("test_days must be a positive integer.", <<>>)
    ELSE IF "date" \notin Cols(df)
    THEN Failed("Feature frame must contain a 'date' column for time split.", <<>>)
    ELSE IF ~is_monotonic_increasing(df.rows)
    THEN Failed("Feature frame must be sorted by date before time split.", <<>>)
    ELSE IF has_duplicated(df.rows)
    THEN Failed("Feature frame contains duplicate dates.", <<>>)
    ELSE IF too_few_rows(df, test_days)
    THEN Failed("Feature frame has not enough rows for test_days.", <<>>)
    ELSE LET idx == split_idx(df, test_days)
             feature_cols == SelectSeq(df.columns, LAMBDA c : c # target_col)
             x(from, to) ==
                 DataFrame(feature_cols,
                           [i \in 1..(to - from + 1) |->
                               ColumnsOf(Cols(df) \ {target_col}, df.rows[from + i - 1])])
             y(from, to) == [i \in 1..(to - from + 1) |-> df.rows[from + i - 1][target_col]]
         IN  Returned([x_train |-> x(1, idx),
                       x_test |-> x(idx + 1, Len(df.rows)),
                       y_train |-> y(1, idx),
                       y_test |-> y(idx + 1, Len(df.rows))])

-----------------------------------------------------------------------------
(* Feature store: _coerce_feature_frame, save_feature_frame,               *)
(* load_feature_frame                                                      *)

DEFAULT_FEATURES_FILE == "data/processed/features.parquet"
FEATURE_REQUIRED_COLUMNS == <<"date", "pnl_next_day">>

\* pd.to_datetime on date and pd.to_numeric on pnl_next_day do not raise
can_convert_features(rows) ==
    \A i \in DOMAIN rows :
        can_to_datetime(rows[i].date) /\ can_to_numeric(rows[i].pnl_next_day)

\* the two conversions of _coerce_feature_frame; the other columns stay
convert_features(rows) ==
    Values([i \in DOMAIN rows |->
              [c \in DOMAIN rows[i] |->
                  IF c = "date" THEN to_datetime(rows[i][c])
                  ELSE IF c = "pnl_next_day" THEN to_numeric(rows[i][c])
                  ELSE rows[i][c]]])

\* The checks without the one on duplicated dates.
feature_frame_checks_nans_only(converted) ==
    IF \E i \in DOMAIN converted.rows : isna_row(converted, converted.rows[i])
    THEN Failed("Feature frame contains NaNs.", <<>>)
    ELSE Returned(converted)

\* the checks of _coerce_feature_frame on the sorted frame (io.py:334-338)
feature_frame_checks(converted) ==
    IF \E i \in DOMAIN converted.rows : isna_row(converted, converted.rows[i])
    THEN Failed("Feature frame contains NaNs.", <<>>)
    ELSE IF has_duplicated(converted.rows)
    THEN Failed("Feature frame must contain unique dates.", <<>>)
    ELSE Returned(converted)

\* _coerce_feature_frame(df): every outcome it can have
coerce_feature_frame(df) ==
    LET missing == SelectSeq(FEATURE_REQUIRED_COLUMNS, LAMBDA c : c \notin Cols(df))
    IN  IF missing # <<>>
        THEN {Failed("Feature frame schema mismatch. Missing required columns", missing)}
        ELSE IF ~can_convert_features(df.rows)
        THEN {Failed("Feature frame has invalid dtypes", <<>>)}
        ELSE {feature_frame_checks(DataFrame(df.columns, rows)) :
                 rows \in sort_rows(convert_features(df.rows))}

\* save_feature_frame(df, path) on the disk fs: every effect it can have
save_feature_frame(fs, df, path) ==
    LET out_path == IF path = <<>> THEN DEFAULT_FEATURES_FILE ELSE path[1]
    IN  {IF ~normalized.ok THEN Effect(fs, normalized)
         ELSE Effect(write_file(fs, out_path, to_parquet(normalized.out[1])),
                     Returned(out_path))
            : normalized \in coerce_feature_frame(df)}

\* load_feature_frame(path) on the disk fs: every outcome it can have
load_feature_frame(fs, path) ==
    LET feature_path == IF path = <<>> THEN DEFAULT_FEATURES_FILE ELSE path[1]
    IN  IF feature_path \notin DOMAIN fs
        THEN {Failed("Feature frame file not found", <<>>)}
        ELSE coerce_feature_frame(read_parquet(fs[feature_path]))

-----------------------------------------------------------------------------
(* Inputs                                                                  *)

\* How many rows one download_data call may decode in all.
MaxTotalRows == 2

\* The start_date / end_date strings of a call; the last one names no day.
DateInputs == {<<2025, 1, 1>>, <<2025, 12, 31>>, <<2026, 1, 1>>, <<2026, 2, 30>>}

\* Var elements the decoder accepts, and one for each way it rejects a row.
GoodNodes ==
    {[fecha |-> <<<<31, 12, 2025>>>>, venta |-> <<"7.50000">>],
     [fecha |-> <<<<1, 1, 2026>>>>, venta |-> <<"7.50000">>],
     [fecha |-> <<<<1, 1, 2026>>>>, venta |-> <<"7.80000">>]}

BadNodes ==
    {[fecha |-> <<>>, venta |-> <<"7.50000">>],
     [fecha |-> <<<<1, 1, 2026>>>>, venta |-> <<>>],
     [fecha |-> <<<<31, 2, 2026>>>>, venta |-> <<"7.50000">>],
     [fecha |-> <<<<1, 1, 2026>>>>, venta |-> <<"n/a">>]}

SeqsUpTo(S, n) == UNION {[1..k -> S] : k \in 0..n}

FaultTexts == {<<>>, <<"">>, <<"Server was unable to process request.">>}

\* The responses of the service with at most n Var elements: rows only, rows
\* ending in a rejected one (the decoder reads nothing after it), a fault with
\* or without a row beside it, and bytes that are not XML.
Payloads(n) ==
    {[wellformed |-> TRUE, fault |-> <<>>, vars |-> v] : v \in SeqsUpTo(GoodNodes, n)}
    \cup {[wellformed |-> TRUE, fault |-> <<>>, vars |-> Append(v, b)] :
            v \in SeqsUpTo(GoodNodes, n - 1), b \in IF n >= 1 THEN BadNodes ELSE {}}
    \cup {[wellformed |-> TRUE, fault |-> <<[faultstring |-> t]>>, vars |-> v] :
            t \in FaultTexts, v \in SeqsUpTo(GoodNodes, Min(n, 1))}
    \cup {[wellformed |-> FALSE, fault |-> <<>>, vars |-> <<>>]}

\* The statuses urlopen raises HTTPError for, and the bodies they come with: a
\* SOAP fault, and an answer with a row
\* the status of an answer urlopen raises HTTPError for
ErrorStatuses == {500}

\* the body of such an answer: a SOAP fault, or a result like a good answer's
ErrorBodies ==
    {[wellformed |-> TRUE, fault |-> <<[faultstring |-> <<"Server was unable to process request.">>]>>,
      vars |-> <<>>],
     [wellformed |-> TRUE, fault |-> <<>>,
      vars |-> <<[fecha |-> <<<<1, 1, 2026>>>>, venta |-> <<"7.50000">>]>>]}

\* How many rows a frame given to clean or build_features may have.
MaxRows == 5

RateInputs == {750000, 780000}

\* 2024-01-05, a Friday
FirstDay == MakeDate(2024, 1, 5)

\* one row a day from FirstDay on, dates as text, with the given rates
daily(rates) ==
    DataFrame(REQUIRED_COLUMNS,
              [i \in 1..Len(rates) |->
                  [date |-> DateText(IsoFormat(FirstDay + i - 1)), rate |-> Float(rates[i])]])

\* frames that are not one positive rate a day in date order: out of order, a
\* date twice, rates as text, a missing cell, text that is no date or no
\* number, a rate of zero, a column too many, a column too few, no row
OddFrames ==
    {DataFrame(REQUIRED_COLUMNS,
               <<[date |-> DateText(<<2024, 1, 3>>), rate |-> RateText("7.80000")],
                 [date |-> DateText(<<2024, 1, 1>>), rate |-> RateText("7.50000")],
                 [date |-> DateText(<<2024, 1, 2>>), rate |-> RateText("7.50000")]>>),
     DataFrame(REQUIRED_COLUMNS,
               <<[date |-> DateText(<<2024, 1, 2>>), rate |-> Float(750000)],
                 [date |-> DateText(<<2024, 1, 1>>), rate |-> Float(750000)],
                 [date |-> Timestamp(MakeDate(2024, 1, 2)), rate |-> Float(780000)]>>),
     DataFrame(REQUIRED_COLUMNS,
               <<[date |-> DateText(<<2024, 1, 1>>), rate |-> NaN],
                 [date |-> NaT, rate |-> Float(750000)],
                 [date |-> DateText(<<2024, 1, 2>>), rate |-> Float(780000)]>>),
     DataFrame(REQUIRED_COLUMNS,
               <<[date |-> DateText(<<2024, 1, 1>>), rate |-> NaN]>>),
     DataFrame(REQUIRED_COLUMNS,
               <<[date |-> DateText(<<2024, 2, 30>>), rate |-> Float(750000)]>>),
     DataFrame(REQUIRED_COLUMNS,
               <<[date |-> DateText(<<2024, 1, 1>>), rate |-> RateText("n/a")]>>),
     DataFrame(REQUIRED_COLUMNS,
               <<[date |-> DateText(<<2024, 1, 1>>), rate |-> Float(0)]>>),
     DataFrame(<<"date", "rate", "extra">>,
               <<[date |-> DateText(<<2024, 1, 2>>), rate |-> Float(780000), extra |-> Float(1)],
                 [date |-> DateText(<<2024, 1, 1>>), rate |-> Float(750000), extra |-> NaN]>>),
     DataFrame(<<"rate", "date">>,
               <<[date |-> DateText(<<2024, 1, 1>>), rate |-> Float(750000)]>>),
     DataFrame(<<"date", "close">>,
               <<[date |-> DateText(<<2024, 1, 1>>), close |-> Float(750000)]>>),
     DataFrame(<<"rate">>, <<[rate |-> Float(750000)]>>),
     DataFrame(<<"close">>, <<[close |-> Float(750000)]>>)}

\* _raw_df(rows) of tests/test_features.py: one row a day from 2024-01-01 on,
\* dates as text, rates 7.2, 7.2005, 7.2010, ...
raw_df(rows) ==
    DataFrame(REQUIRED_COLUMNS,
              [i \in 1..rows |->
                  [date |-> DateText(IsoFormat(MakeDate(2024, 1, 1) + i - 1)),
                   rate |-> Float(720000 + 50 * (i - 1))]])

\* the rows of the end-to-end scenario
ScenarioRows == 700

FrameInputs == {daily(r) : r \in SeqsUpTo(RateInputs, MaxRows)} \cup OddFrames

NotionalInputs == {DEFAULT_NOTIONAL_USD, 0}

LagInputs == {<<1>>, <<2>>, <<2, 1, 2>>, <<>>, <<1, 0>>}

\* the arguments of build_features: the small frames with every notional and
\* lag set, and the end-to-end scenario of tests/test_features.py
BuildInputs ==
    (FrameInputs \X NotionalInputs \X LagInputs)
    \cup {<<raw_df(ScenarioRows), DEFAULT_NOTIONAL_USD, FEATURE_LAGS>>}

TestDaysInputs == {0, 1, 2, DEFAULT_TEST_DAYS}

\* frames for the splitter that build_features did not make: three days in
\* order, out of order, a date twice, no date column, no target column
SplitFrame(columns, days) ==
    DataFrame(columns,
              [i \in 1..Len(days) |->
                  [c \in {columns[j] : j \in 1..Len(columns)} |->
                      IF c = "date" THEN Timestamp(FirstDay + days[i]) ELSE Float(i)]])

SplitInputs ==
    {SplitFrame(<<"date", "pnl", "pnl_next_day">>, <<0, 1, 2>>),
     SplitFrame(<<"date", "pnl", "pnl_next_day">>, <<0, 2, 1>>),
     SplitFrame(<<"date", "pnl", "pnl_next_day">>, <<0, 1, 1>>),
     SplitFrame(<<"pnl", "pnl_next_day">>, <<0, 1, 2>>),
     SplitFrame(<<"date", "return_simple">>, <<0, 1, 2>>)}

\* The dates the partitioner is tried on, around year ends and a leap day.
RangeDates ==
    {MakeDate(d[1], d[2], d[3]) : d \in
        {<<2023, 12, 30>>, <<2023, 12, 31>>, <<2024, 1, 1>>, <<2024, 2, 28>>,
         <<2024, 2, 29>>, <<2024, 3, 1>>, <<2024, 12, 30>>, <<2024, 12, 31>>,
         <<2025, 1, 1>>, <<2025, 1, 2>>, <<2025, 6, 15>>, <<2025, 12, 31>>,
         <<2026, 1, 1>>, <<2026, 1, 2>>, <<2026, 12, 31>>, <<2027, 1, 1>>}}

\* Frames handed to the store: one row a day in order; the two rows of
\* test_save_load_processed_parquet_roundtrip, the later day first; a date
\* twice; bad_df with a column too many; a rate that is no number.
StoreFrames ==
    {DataFrame(REQUIRED_COLUMNS,
               <<[date |-> Timestamp(MakeDate(2026, 1, 1)), rate |-> Float(750000)],
                 [date |-> Timestamp(MakeDate(2026, 1, 2)), rate |-> Float(780000)],
                 [date |-> Timestamp(MakeDate(2026, 1, 3)), rate |-> Float(750000)]>>),
     DataFrame(REQUIRED_COLUMNS,
               <<[date |-> DateText(<<2026, 1, 2>>), rate |-> Float(770000)],
                 [date |-> DateText(<<2026, 1, 1>>), rate |-> Float(760000)]>>),
     DataFrame(REQUIRED_COLUMNS,
               <<[date |-> DateText(<<2026, 1, 2>>), rate |-> Float(750000)],
                 [date |-> DateText(<<2026, 1, 1>>), rate |-> Float(750000)],
                 [date |-> Timestamp(MakeDate(2026, 1, 2)), rate |-> Float(780000)]>>),
     DataFrame(<<"date", "rate", "extra">>,
               <<[date |-> DateText(<<2026, 1, 1>>), rate |-> Float(760000), extra |-> Float(1)]>>),
     DataFrame(REQUIRED_COLUMNS,
               <<[date |-> DateText(<<2026, 1, 1>>), rate |-> RateText("n/a")]>>)}

\* df.attrs of a frame handed to the store: what download_data sets
\* (io.py:245-246) on a frame of timestamps, nothing on the others
attrs_of(df) ==
    IF \A i \in DOMAIN df.rows : df.rows[i].date.k = "ts"
    THEN <<[requested_start_date |-> <<2026, 1, 1>>, requested_end_date |-> <<2026, 1, 31>>]>>
    ELSE <<>>

\* a frame and its attrs
StoreInputs == {<<df, attrs_of(df)>> : df \in StoreFrames}

\* path: None, or a file of another directory (tmp_path of the tests)
RawPathInputs == {<<>>, <<"tmp/usd_gtq_daily.csv">>}
ProcessedPathInputs == {<<>>}

\* Feature frames handed to save_feature_frame: _feature_df of
\* tests/test_feature_io.py, the later day first and dates as text; the same
\* with a missing return, with a missing target, with a missing date, with a
\* date twice; bad_df without the target column; a frame without date.
feature_df(dates, returns, targets) ==
    DataFrame(<<"date", "return_simple", "pnl_next_day">>,
              [i \in DOMAIN dates |->
                  [date |-> dates[i], return_simple |-> returns[i],
                   pnl_next_day |-> targets[i]]])

FeatureFrameInputs ==
    {feature_df(<<DateText(<<2026, 1, 2>>), DateText(<<2026, 1, 1>>)>>,
                <<Float(1), Float(1)>>, <<Float(11000), Float(12000)>>),
     feature_df(<<DateText(<<2026, 1, 2>>), DateText(<<2026, 1, 1>>)>>,
                <<Float(1), NaN>>, <<Float(11000), Float(12000)>>),
     feature_df(<<DateText(<<2026, 1, 2>>), DateText(<<2026, 1, 1>>)>>,
                <<Float(1), Float(1)>>, <<NaN, Float(12000)>>),
     feature_df(<<NaT, DateText(<<2026, 1, 1>>)>>,
                <<Float(1), Float(1)>>, <<Float(11000), Float(12000)>>),
     feature_df(<<DateText(<<2026, 1, 1>>), Timestamp(MakeDate(2026, 1, 1))>>,
                <<Float(1), Float(1)>>, <<Float(11000), Float(12000)>>),
     feature_df(<<DateText(<<2026, 2, 30>>)>>, <<Float(1)>>, <<Float(11000)>>),
     DataFrame(<<"date", "pnl">>,
               <<[date |-> DateText(<<2026, 1, 1>>), pnl |-> Float(10000)]>>),
     DataFrame(<<"pnl", "pnl_next_day">>,
               <<[pnl |-> Float(10000), pnl_next_day |-> Float(11000)]>>)}

-----------------------------------------------------------------------------
(* download_data, one action per stretch of code between two blocking calls *)

\* pipeline.run was never called
NotRunning ==
    [n |-> 0, stage |-> "idle", downloads |-> 0, done |-> <<>>, printed |-> <<>>,
     failed |-> <<>>, raised |-> <<>>, value |-> <<>>]

Init ==
    /\ pc = "idle"
    /\ start = 0
    /\ end = 0
    /\ ranges = <<>>
    /\ chunk = 0
    /\ attempt = 0
    /\ waits = <<>>
    /\ last_error = "None"
    /\ http_error = <<>>
    /\ outstanding = {}
    /\ nRequests = 0
    /\ nFailed = 0
    /\ requested = {}
    /\ decoded = 0
    /\ all_rows = <<>>
    /\ response = <<>>
    /\ result = <<>>
    /\ error = <<>>
    /\ files = <<>>
    /\ part = <<>>
    /\ call = <<>>
    /\ run = NotRunning
    /\ save = <<>>

\* An exception leaves download_data: nothing is returned.
raise(e) ==
    /\ pc' = "raised"
    /\ error' = <<e>>
    /\ UNCHANGED <<result, files, part, call, run, save>>

\* urlopen(request, timeout=...) for chunk i of rs, `pending` being the requests
\* still unanswered when it is called
urlopen(i, rs, pending) ==
    /\ outstanding' = pending \cup {[chunk |-> i, request |-> build_soap_envelope(rs[i])]}
    /\ nRequests' = nRequests + 1
    /\ requested' = requested \cup {i}
    /\ pc' = "inflight"

\* _post_soap_request(chunk_start, chunk_end) up to its first urlopen
post_soap_request(i, rs, pending) ==
    /\ chunk' = i
    /\ attempt' = 1
    /\ waits' = <<>>
    /\ last_error' = "None"
    /\ http_error' = <<>>
    /\ urlopen(i, rs, pending)

\* download_data(start_date, end_date) up to the first request
download_data(s, e) ==
    /\ pc = "idle"
    /\ IF ~CanParseIso(s) \/ ~CanParseIso(e)
       THEN /\ raise(Exc("ValueError", "bad_format", "", <<>>, <<>>, 0, <<>>, "ValueError"))
            /\ UNCHANGED <<start, end, ranges, chunk, attempt, waits, last_error, http_error,
                           outstanding, nRequests, requested>>
       ELSE IF ParseIso(s) > ParseIso(e)
       THEN /\ raise(Exc("ValueError", "start_after_end", "", <<>>, <<>>, 0, <<>>, ""))
            /\ UNCHANGED <<start, end, ranges, chunk, attempt, waits, last_error, http_error,
                           outstanding, nRequests, requested>>
       ELSE /\ start' = ParseIso(s)
            /\ end' = ParseIso(e)
            /\ ranges' = iter_yearly_ranges(ParseIso(s), ParseIso(e))
            /\ post_soap_request(1, ranges', outstanding)
            /\ UNCHANGED <<result, error, files, part, call, run, save>>
    /\ UNCHANGED <<nFailed, decoded, all_rows, response>>

\* A decode error of any chunk leaves download_data and drops what was decoded,
\* here with the chunk skipped instead and the loop carried on.
on_decode_error_skip(e) ==
    /\ error' = <<e>>
    /\ UNCHANGED <<start, end, ranges, waits, last_error, http_error, nFailed, decoded, all_rows,
                   attempt, files, part, call, run, save>>
    /\ IF chunk < Len(ranges)
       THEN /\ chunk' = chunk + 1
            /\ urlopen(chunk + 1, ranges, {})
            /\ UNCHANGED result
       ELSE /\ pc' = "returned"
            /\ result' = <<Table(drop_duplicates_last(
                                   CHOOSE df \in coerce_strict_types(all_rows) : TRUE),
                                 start, end)>>
            /\ outstanding' = {}
            /\ UNCHANGED <<chunk, nRequests, requested>>

\* A decode error handled like a failed attempt: waited for and tried again.
on_decode_error_retry(e) ==
    /\ outstanding' = {}
    /\ UNCHANGED <<start, end, ranges, chunk, attempt, last_error, http_error, nRequests, nFailed,
                   requested, decoded, all_rows>>
    /\ IF retries_exhausted(attempt)
       THEN /\ raise(e)
            /\ UNCHANGED waits
       ELSE /\ pc' = "sleep"
            /\ waits' = Append(waits, backoff_delay(attempt))
            /\ UNCHANGED <<result, error, files, part, call, run, save>>

\* The exception of _extract_rows_from_payload propagates out of the loop (io.py:234).
on_decode_error(e) ==
    /\ raise(e)
    /\ outstanding' = {}
    /\ attempt' = 0
    /\ waits' = <<>>
    /\ last_error' = "None"
    /\ http_error' = <<>>
    /\ UNCHANGED <<start, end, ranges, chunk, nRequests, nFailed, requested, decoded,
                   all_rows>>

\* io.py:236-247: the zero-rows check, then the frame is built, sorted,
\* deduplicated and returned
finish(rows) ==
    /\ outstanding' = {}
    /\ attempt' = 0
    /\ waits' = <<>>
    /\ last_error' = "None"
    /\ http_error' = <<>>
    /\ UNCHANGED <<chunk, nRequests, requested>>
    /\ IF rows = <<>>
       THEN raise(Exc("RuntimeError", "zero_rows", "",
                      IsoFormat(start), IsoFormat(end), 0, <<>>, ""))
       ELSE /\ \E df \in coerce_strict_types(rows) :
                 result' = <<Table(drop_duplicates_last(df), start, end)>>
            /\ pc' = "returned"
            /\ UNCHANGED <<error, files, part, call, run, save>>

\* The loop with the zero-rows check made on every chunk's rows.
on_decoded_checks_each(rows) ==
    /\ all_rows' = rows
    /\ decoded' = decoded + 1
    /\ UNCHANGED <<start, end, ranges, nFailed>>
    /\ IF rows = all_rows
       THEN /\ raise(Exc("RuntimeError", "zero_rows", "",
                         IsoFormat(start), IsoFormat(end), 0, <<>>, ""))
            /\ outstanding' = {}
            /\ attempt' = 0
            /\ waits' = <<>>
            /\ last_error' = "None"
            /\ http_error' = <<>>
            /\ UNCHANGED <<chunk, nRequests, requested>>
       ELSE IF chunk < Len(ranges)
       THEN /\ post_soap_request(chunk + 1, ranges,
                                 outstanding \ {o \in outstanding : o.chunk = chunk})
            /\ UNCHANGED <<result, error, files, part, call, run, save>>
       ELSE finish(rows)

\* all_rows.extend(...), then the next chunk's request or the end of the loop
on_decoded(rows) ==
    /\ all_rows' = rows
    /\ decoded' = decoded + 1
    /\ UNCHANGED <<start, end, ranges, nFailed>>
    /\ IF chunk < Len(ranges)
       THEN /\ post_soap_request(chunk + 1, ranges,
                                 outstanding \ {o \in outstanding : o.chunk = chunk})
            /\ UNCHANGED <<result, error, files, part, call, run, save>>
       ELSE finish(rows)

\* response.read() returns the payload: _post_soap_request returns it and
\* download_data decodes it
ReceiveResponse(payload) ==
    /\ pc = "inflight"
    /\ response' = <<payload>>
    /\ LET c == ranges[chunk]
           got == extract_rows_from_payload(payload, c[1], c[2])
       IN  IF got.ok THEN on_decoded(all_rows \o got.rows)
           ELSE on_decode_error(got.error[1])

\* The except clause of _post_soap_request (io.py:94-107) on the exception exc;
\* http is <<>>, or <<the status and body>> of an HTTPError
on_attempt_failed(exc, http) ==
    /\ pc = "inflight"
    /\ last_error' = exc
    /\ http_error' = http
    /\ nFailed' = nFailed + 1
    /\ outstanding' = {}
    /\ UNCHANGED <<start, end, ranges, chunk, attempt, nRequests, requested, decoded,
                   all_rows, response>>
    /\ IF retries_exhausted(attempt)
       THEN /\ raise(TransportError(ranges[chunk], exc))
            /\ UNCHANGED waits
       ELSE /\ pc' = "sleep"
            /\ waits' = Append(waits, backoff_delay(attempt))
            /\ UNCHANGED <<result, error, files, part, call, run, save>>

\* The body of an error-status response decoded before the attempt is counted
\* as failed: a fault in it is raised as the fault error.
ReceiveErrorStatus_decoded(code, payload) ==
    /\ pc = "inflight"
    /\ last_error' = "HTTPError"
    /\ http_error' = <<[code |-> code, body |-> payload]>>
    /\ nFailed' = nFailed + 1
    /\ outstanding' = {}
    /\ response' = <<payload>>
    /\ UNCHANGED <<start, end, ranges, chunk, attempt, nRequests, requested, decoded,
                   all_rows>>
    /\ LET got == extract_rows_from_payload(payload, ranges[chunk][1], ranges[chunk][2])
       IN  IF ~got.ok
           THEN /\ raise(got.error[1])
                /\ UNCHANGED waits
           ELSE IF retries_exhausted(attempt)
           THEN /\ raise(TransportError(ranges[chunk], "HTTPError"))
                /\ UNCHANGED waits
           ELSE /\ pc' = "sleep"
                /\ waits' = Append(waits, backoff_delay(attempt))
                /\ UNCHANGED <<result, error, files, part, call, run, save>>

\* The service answers with an error status: urlopen raises the HTTPError that
\* holds the status and the body
ReceiveErrorStatus(code, payload) ==
    on_attempt_failed("HTTPError", <<[code |-> code, body |-> payload]>>)

\* urlopen raises URLError or TimeoutError, or an HTTPError without a body
AttemptFails(exc) == on_attempt_failed(exc, <<>>)

\* urlopen raises an exception the except clause does not name
AttemptEscapes(exc) ==
    /\ pc = "inflight"
    /\ raise(Exc(exc, "uncaught", "", <<>>, <<>>, 0, <<>>, ""))
    /\ nFailed' = nFailed + 1
    /\ outstanding' = {}
    /\ UNCHANGED <<start, end, ranges, chunk, attempt, waits, last_error, http_error, nRequests,
                   requested, decoded, all_rows, response>>

\* time.sleep(delay_seconds) returns and the loop makes its next attempt; past
\* the last attempt the loop ends and io.py:109 raises
WakeUp ==
    /\ pc = "sleep"
    /\ attempt' = attempt + 1
    \* the name bound by "except ... as exc" is gone when the clause ends
    /\ http_error' = <<>>
    /\ UNCHANGED <<start, end, ranges, chunk, waits, last_error, nFailed, decoded,
                   all_rows, response>>
    /\ IF attempt + 1 <= SOAP_MAX_RETRIES
       THEN /\ urlopen(chunk, ranges, outstanding)
            /\ UNCHANGED <<result, error, files, part, call, run, save>>
       ELSE /\ raise(Exc("RuntimeError", "unexpected", "", <<>>, <<>>, 0, <<>>, last_error))
            /\ UNCHANGED <<outstanding, nRequests, requested>>

\* the DataFrame download_data returned, as the table functions see it
as_dataframe(table) ==
    DataFrame(REQUIRED_COLUMNS,
              Values([i \in DOMAIN table.rows |->
                  [date |-> Timestamp(table.rows[i].date),
                   rate |-> Float(table.rows[i].rate)]]))

\* save_raw_snapshot(downloaded) of pipeline.run: the snapshot file and its
\* sidecar are written
run_save_raw_snapshot ==
    /\ pc = "returned"
    /\ DOMAIN files = {}
    /\ \E effect \in save_raw_snapshot(files, as_dataframe(result[1]),
                                       <<result[1].attrs>>, <<>>) :
          files' = effect.files
    /\ UNCHANGED <<pc, start, end, ranges, chunk, attempt, waits, last_error, http_error,
                   outstanding, nRequests, nFailed, requested, decoded, all_rows,
                   response, result, error, part, call, run, save>>

Next ==
    \/ \E s, e \in DateInputs : download_data(s, e)
    \/ \E payload \in Payloads(MaxTotalRows - Len(all_rows)) : ReceiveResponse(payload)
    \/ \E exc \in CaughtErrors : AttemptFails(exc)
    \/ \E code \in ErrorStatuses, payload \in ErrorBodies : ReceiveErrorStatus(code, payload)
    \/ \E exc \in OtherErrors : AttemptEscapes(exc)
    \/ WakeUp
    \/ run_save_raw_snapshot

Spec == Init /\ [][Next]_vars

\* One call of _iter_yearly_ranges on its own.
Partition(s, e) ==
    /\ part = <<>>
    /\ part' = <<[first |-> s, last |-> e, ranges |-> iter_yearly_ranges(s, e)]>>
    /\ UNCHANGED <<dlVars, call, run, save>>

NextRanges == \E s, e \in RangeDates : Partition(s, e)

SpecRanges == Init /\ [][NextRanges]_vars

-----------------------------------------------------------------------------
(* The table functions of features.py, called one after another            *)

\* The variables of a download_data call.
netVars == <<pc, start, end, ranges, chunk, attempt, waits, last_error, http_error, outstanding,
             nRequests, nFailed, requested, decoded, all_rows, response, result, error>>

\* the record of a call: the function, its arguments, and what came of it
Called(fn, df, args, outcome) ==
    <<[fn |-> fn, df |-> df, args |-> args, ok |-> outcome.ok, out |-> outcome.out,
       error |-> outcome.error, names |-> outcome.names]>>

\* the frame the last call returned, if it returned one
LastFrames(fns) ==
    IF call # <<>> /\ call[1].fn \in fns /\ call[1].ok THEN {call[1].out[1]} ELSE {}

\* cleaned = clean(df), on a frame from outside or on what clean just returned
call_clean(df) ==
    /\ \E outcome \in clean(df) : call' = Called("clean", df, <<>>, outcome)
    /\ UNCHANGED <<dlVars, part, run, save>>

\* features = build_features(df, notional_usd, lags), on a frame from outside
\* or on what clean just returned (pipeline.py:60-61)
call_build_features(df, notional_usd, lags) ==
    /\ \E outcome \in build_features(df, notional_usd, lags) :
          call' = Called("build_features", df, <<notional_usd, lags>>, outcome)
    /\ UNCHANGED <<dlVars, part, run, save>>

\* train_test_split_time(df, test_days, target_col)
call_train_test_split_time(df, test_days, target_col) ==
    /\ call' = Called("train_test_split_time", df, <<test_days, target_col>>,
                      train_test_split_time(df, test_days, target_col))
    /\ UNCHANGED <<dlVars, part, run, save>>

\* feature_path = save_feature_frame(features_df) (pipeline.py:62), on a frame
\* from outside or on what build_features just returned
call_save_feature_frame(df, path) ==
    /\ \E effect \in save_feature_frame(files, df, path) :
          /\ files' = effect.files
          /\ call' = Called("save_feature_frame", df, <<path>>, effect.outcome)
    /\ UNCHANGED <<netVars, part, run, save>>

\* loaded_features = load_feature_frame(feature_path) (pipeline.py:63)
call_load_feature_frame(path) ==
    /\ \E outcome \in load_feature_frame(files, path) :
          call' = Called("load_feature_frame", <<>>, <<path>>, outcome)
    /\ UNCHANGED <<dlVars, part, run, save>>

\* a frame from outside is taken up only when no call was made yet
FromOutside(frames) == IF call = <<>> THEN frames ELSE {}

NextFeatures ==
    \/ \E df \in FromOutside(FrameInputs) \cup LastFrames({"clean"}) : call_clean(df)
    \/ \E b \in FromOutside(BuildInputs)
                \cup (LastFrames({"clean"}) \X NotionalInputs \X LagInputs) :
          call_build_features(b[1], b[2], b[3])
    \/ \E df \in FeatureFrameInputs \cup LastFrames({"build_features"}) :
          call_save_feature_frame(df, <<>>)
    \/ call_load_feature_frame(<<>>)
    \/ \E df \in FromOutside(SplitInputs)
                 \cup LastFrames({"build_features", "load_feature_frame"}),
          k \in TestDaysInputs, target_col \in {TARGET_COLUMN, "pnl"} :
          call_train_test_split_time(df, k, target_col)

SpecFeatures == Init /\ [][NextFeatures]_vars

\* save_raw_snapshot(df, path)
call_save_raw_snapshot(df, attrs, path) ==
    /\ \E effect \in save_raw_snapshot(files, df, attrs, path) :
          /\ files' = effect.files
          /\ call' = Called("save_raw_snapshot", df, <<path>>, effect.outcome)
    /\ UNCHANGED <<netVars, part, run, save>>

\* load_raw(path)
call_load_raw(path) ==
    /\ \E outcome \in load_raw(files, path) :
          call' = Called("load_raw", <<>>, <<path>>, outcome)
    /\ UNCHANGED <<dlVars, part, run, save>>

\* save_processed(df, path)
call_save_processed(df, path) ==
    /\ \E effect \in save_processed(files, df, path) :
          /\ files' = effect.files
          /\ call' = Called("save_processed", df, <<path>>, effect.outcome)
    /\ UNCHANGED <<netVars, part, run, save>>

\* load_processed(path)
call_load_processed(path) ==
    /\ \E outcome \in load_processed(files, path) :
          call' = Called("load_processed", <<>>, <<path>>, outcome)
    /\ UNCHANGED <<dlVars, part, run, save>>

\* The store on its own: tables from outside, or the table just loaded, are
\* saved, and files are loaded.
NextStore ==
    \/ \E in \in StoreInputs \cup
                    {<<df, <<>>>> : df \in LastFrames({"load_raw", "load_processed"})},
          path \in RawPathInputs :
          call_save_raw_snapshot(in[1], in[2], path)
    \/ \E path \in RawPathInputs : call_load_raw(path)
    \/ \E df \in StoreFrames \cup LastFrames({"load_raw", "load_processed"}),
          path \in ProcessedPathInputs :
          call_save_processed(df, path)
    \/ \E path \in ProcessedPathInputs : call_load_processed(path)

SpecStore == Init /\ [][NextStore]_vars

-----------------------------------------------------------------------------
(* pipeline.run: the stages of the try block, one action each              *)
(*                                                                         *)
(* run.stage is the stage run() executes next, run.done the stages of this *)
(* call that returned, run.value what the last of them left for the next,  *)
(* run.failed the exception a stage raised, run.raised the exception that  *)
(* left run() and run.printed the lines it printed.  The disk holds the    *)
(* data files of io.py; the model artifacts and the predictions file are   *)
(* known by the outcome of the stage that writes them.                     *)

\* the calls of the try block in the order of pipeline.py:57-108
Stages ==
    <<"download_data", "save_raw_snapshot", "load_raw", "clean", "build_features",
      "save_feature_frame", "load_feature_frame", "train_test_split_time",
      "build_model_matrix", "train", "save_model", "predict", "write_predictions">>

\* what follows a stage that returned: the next call, or the prints after the try
stage_after(s) ==
    LET i == CHOOSE k \in 1..Len(Stages) : Stages[k] = s
    IN  IF i < Len(Stages) THEN Stages[i + 1] ELSE "print"

\* The stage run() begins with when a snapshot is kept from an earlier run.
first_stage_cached(fs) ==
    IF DEFAULT_RAW_FILE \in DOMAIN fs THEN "load_raw" ELSE "download_data"

\* the first call of the try block, whatever the disk holds
first_stage(fs) == "download_data"

\* An except clause that lets the error go.
except_clause_swallowed(exc) == <<>>

\* except Exception as exc: raise RuntimeError(...) from exc
except_clause(exc) ==
    <<[type |-> "RuntimeError",
       message |-> "Stage 4 pipeline failed during data acquisition/modeling.",
       cause |-> exc]>>

\* run() after the stage r.stage returned v
returns(r, v) ==
    [r EXCEPT !.stage = stage_after(r.stage),
              !.done = Append(r.done, r.stage),
              !.value = <<v>>]

\* run() after the stage r.stage raised exc
raises(r, exc) ==
    [r EXCEPT !.failed = <<[stage |-> r.stage, error |-> exc]>>,
              !.raised = except_clause(exc),
              !.stage = IF except_clause(exc) = <<>> THEN "print" ELSE "raised",
              !.value = <<>>]

after_stage(r, outcome) ==
    IF outcome.ok THEN returns(r, outcome.out[1]) ELSE raises(r, outcome.error)

\* an operating-system error of a call that reads or writes a file
OSError == Failed("OSError", <<>>)

\* _build_model_matrix(x.drop(columns=["date"], errors="ignore"))
build_model_matrix(x) ==
    LET cols == SelectSeq(x.columns, LAMBDA c : c # "date")
        matrix == DataFrame(cols, Values([i \in DOMAIN x.rows |->
                                             ColumnsOf(Cols(x) \ {"date"}, x.rows[i])]))
    IN  IF cols = <<>> \/ DOMAIN x.rows = {}
        THEN Failed("No numeric feature columns available for model training.", <<>>)
        ELSE IF \E i \in DOMAIN matrix.rows : isna_row(matrix, matrix.rows[i])
        THEN Failed("Model matrix contains NaN values.", <<>>)
        ELSE Returned(matrix)

\* _validate_training_inputs(X_train, y_train): <<>> or <<the message>>
validate_training_inputs(X_train, y_train) ==
    IF DOMAIN X_train.rows = {} \/ X_train.columns = <<>> THEN <<"X_train is empty.">>
    ELSE IF DOMAIN y_train = {} THEN <<"y_train is empty.">>
    ELSE IF Len(X_train.rows) # Len(y_train)
    THEN <<"X_train and y_train lengths must match.">>
    ELSE IF \E i \in DOMAIN X_train.rows : isna_row(X_train, X_train.rows[i])
    THEN <<"X_train contains NaN values.">>
    ELSE IF \E i \in DOMAIN y_train : y_train[i].k = "na"
    THEN <<"y_train contains NaN values.">>
    ELSE <<>>

\* the names of the three fitted models
ModelNames == <<"qr_linear_q01", "qr_tree_q01", "linear_mean">>

\* train_quantile_linear, train_quantile_tree, train_linear_mean: the inputs
\* are validated, then fit returns the model or raises
train(X_train, y_train) ==
    IF validate_training_inputs(X_train, y_train) # <<>>
    THEN {Failed(validate_training_inputs(X_train, y_train)[1], <<>>)}
    ELSE {Returned(ModelNames), Failed("ValueError raised by fit", <<>>)}

\* _validate_prediction_input(X): <<>> or <<the message>>
validate_prediction_input(X) ==
    IF DOMAIN X.rows = {} \/ X.columns = <<>> THEN <<"Prediction matrix is empty.">>
    ELSE IF \E i \in DOMAIN X.rows : isna_row(X, X.rows[i])
    THEN <<"Prediction matrix contains NaN values.">>
    ELSE <<>>

\* predict_quantile_linear, predict_quantile_tree, predict_linear_mean: each
\* returns one prediction a row of X, or raises
predict(models, X) ==
    IF validate_prediction_input(X) # <<>>
    THEN {Failed(validate_prediction_input(X)[1], <<>>)}
    ELSE {Returned([m \in 1..Len(models) |-> Len(X.rows)]),
          Failed("ValueError raised by predict", <<>>)}

\* _validate_prediction_series on the three series, then the table is written
write_predictions(lengths, expected_length) ==
    IF \E m \in DOMAIN lengths : lengths[m] # expected_length
    THEN {Failed("prediction length does not match expected test length", <<>>)}
    ELSE {Returned(expected_length), OSError}

\* the table download_data returns for a range of n days from 2024-01-01 on
pipeline_table(n, rate) ==
    Table([i \in 1..n |-> [date |-> MakeDate(2024, 1, 1) + i - 1,
                           rate |-> rate + 50 * (i - 1)]],
          MakeDate(2024, 1, 1), MakeDate(2024, 1, 1) + n - 1)

\* what download_data can return: a day with the rate 0.00000, three days,
\* enough days for two feature rows, enough for one training row
PipelineTables ==
    {pipeline_table(1, 0)} \cup {pipeline_table(n, 720000) : n \in {3, 64, 313}}

\* the outcomes of download_data()
PipelineDownloads ==
    {Returned(t) : t \in PipelineTables}
        \cup {Failed("Banguat SOAP request failed after max retries.", <<>>)}

\* How many times pipeline.run() is called.
MaxRuns == 2

\* pipeline.run() is called: ensure_directories(), then the try block begins
pipeline_run ==
    /\ run.stage \in {"idle", "returned", "raised"}
    /\ run.n < MaxRuns
    /\ run' = [n |-> run.n + 1, stage |-> first_stage(files), downloads |-> run.downloads,
               done |-> <<>>, printed |-> <<>>, failed |-> <<>>, raised |-> <<>>,
               value |-> <<>>]
    /\ UNCHANGED <<dlVars, part, call, save>>

\* downloaded = download_data()
stage_download_data ==
    /\ run.stage = "download_data"
    /\ \E outcome \in PipelineDownloads :
          run' = [after_stage(run, outcome) EXCEPT !.downloads = run.downloads + 1]
    /\ UNCHANGED <<dlVars, part, call, save>>

\* raw_path = save_raw_snapshot(downloaded)
stage_save_raw_snapshot ==
    /\ run.stage = "save_raw_snapshot"
    /\ \E effect \in save_raw_snapshot(files, as_dataframe(run.value[1]),
                                       <<run.value[1].attrs>>, <<>>)
                         \cup {Effect(files, OSError)} :
          /\ files' = effect.files
          /\ run' = after_stage(run, effect.outcome)
    /\ UNCHANGED <<netVars, part, call, save>>

\* raw_df = load_raw(raw_path)
stage_load_raw ==
    /\ run.stage = "load_raw"
    /\ \E outcome \in load_raw(files, run.value) \cup {OSError} :
          run' = after_stage(run, outcome)
    /\ UNCHANGED <<dlVars, part, call, save>>

\* cleaned_df = clean(raw_df)
stage_clean ==
    /\ run.stage = "clean"
    /\ \E outcome \in clean(run.value[1]) : run' = after_stage(run, outcome)
    /\ UNCHANGED <<dlVars, part, call, save>>

\* features_df = build_features(cleaned_df)
stage_build_features ==
    /\ run.stage = "build_features"
    /\ \E outcome \in build_features(run.value[1], DEFAULT_NOTIONAL_USD, FEATURE_LAGS) :
          run' = after_stage(run, outcome)
    /\ UNCHANGED <<dlVars, part, call, save>>

\* feature_path = save_feature_frame(features_df)
stage_save_feature_frame ==
    /\ run.stage = "save_feature_frame"
    /\ \E effect \in save_feature_frame(files, run.value[1], <<>>)
                         \cup {Effect(files, OSError)} :
          /\ files' = effect.files
          /\ run' = after_stage(run, effect.outcome)
    /\ UNCHANGED <<netVars, part, call, save>>

\* loaded_features = load_feature_frame(feature_path)
stage_load_feature_frame ==
    /\ run.stage = "load_feature_frame"
    /\ \E outcome \in load_feature_frame(files, run.value) \cup {OSError} :
          run' = after_stage(run, outcome)
    /\ UNCHANGED <<dlVars, part, call, save>>

\* x_train, x_test, y_train, y_test = train_test_split_time(loaded_features, ...)
stage_train_test_split_time ==
    /\ run.stage = "train_test_split_time"
    /\ LET outcome == train_test_split_time(run.value[1], DEFAULT_TEST_DAYS, TARGET_COLUMN)
       IN  run' = IF outcome.ok
                  THEN returns(run, [feature_rows |-> Len(run.value[1].rows),
                                     x_train |-> outcome.out[1].x_train,
                                     x_test |-> outcome.out[1].x_test,
                                     y_train |-> outcome.out[1].y_train,
                                     y_test |-> outcome.out[1].y_test])
                  ELSE raises(run, outcome.error)
    /\ UNCHANGED <<dlVars, part, call, save>>

\* x_train_matrix and x_test_matrix = _build_model_matrix(...)
stage_build_model_matrix ==
    /\ run.stage = "build_model_matrix"
    /\ LET v == run.value[1]
           train_matrix == build_model_matrix(v.x_train)
           test_matrix == build_model_matrix(v.x_test)
       IN  run' = IF ~train_matrix.ok THEN raises(run, train_matrix.error)
                  ELSE IF ~test_matrix.ok THEN raises(run, test_matrix.error)
                  ELSE returns(run, [feature_rows |-> v.feature_rows,
                                     x_train_matrix |-> train_matrix.out[1],
                                     x_test_matrix |-> test_matrix.out[1],
                                     y_train |-> v.y_train,
                                     test_rows |-> Len(v.y_test)])
    /\ UNCHANGED <<dlVars, part, call, save>>

\* the three models are trained on x_train_matrix and y_train
stage_train ==
    /\ run.stage = "train"
    /\ LET v == run.value[1]
       IN  \E outcome \in train(v.x_train_matrix, v.y_train) :
              run' = IF outcome.ok
                     THEN returns(run, [feature_rows |-> v.feature_rows,
                                        models |-> outcome.out[1],
                                        x_test_matrix |-> v.x_test_matrix,
                                        test_rows |-> v.test_rows])
                     ELSE raises(run, outcome.error)
    /\ UNCHANGED <<dlVars, part, call, save>>

\* save_model on each of the three models
stage_save_model ==
    /\ run.stage = "save_model"
    /\ \E outcome \in {Returned(run.value[1]), OSError} : run' = after_stage(run, outcome)
    /\ UNCHANGED <<dlVars, part, call, save>>

\* the three models predict on x_test_matrix
stage_predict ==
    /\ run.stage = "predict"
    /\ LET v == run.value[1]
       IN  \E outcome \in predict(v.models, v.x_test_matrix) :
              run' = IF outcome.ok
                     THEN returns(run, [feature_rows |-> v.feature_rows,
                                        lengths |-> outcome.out[1],
                                        test_rows |-> v.test_rows])
                     ELSE raises(run, outcome.error)
    /\ UNCHANGED <<dlVars, part, call, save>>

\* the predictions are validated, put in one table and written
stage_write_predictions ==
    /\ run.stage = "write_predictions"
    /\ LET v == run.value[1]
       IN  \E outcome \in write_predictions(v.lengths, v.test_rows) :
              run' = IF outcome.ok
                     THEN returns(run, [feature_rows |-> v.feature_rows,
                                        test_rows |-> outcome.out[1]])
                     ELSE raises(run, outcome.error)
    /\ UNCHANGED <<dlVars, part, call, save>>

\* the two prints after the try block, and run() returns
print_completion ==
    /\ run.stage = "print"
    /\ run' = [run EXCEPT !.printed = <<"STAGE4_MODELS",
                                        "FX VaR Stage 4 baseline modeling complete.">>,
                          !.stage = "returned",
                          !.value = <<>>]
    /\ UNCHANGED <<dlVars, part, call, save>>

NextPipeline ==
    \/ pipeline_run
    \/ stage_download_data
    \/ stage_save_raw_snapshot
    \/ stage_load_raw
    \/ stage_clean
    \/ stage_build_features
    \/ stage_save_feature_frame
    \/ stage_load_feature_frame
    \/ stage_train_test_split_time
    \/ stage_build_model_matrix
    \/ stage_train
    \/ stage_save_model
    \/ stage_predict
    \/ stage_write_predictions
    \/ print_completion

SpecPipeline == Init /\ [][NextPipeline]_vars

-----------------------------------------------------------------------------
(* save_raw_snapshot written out step by step, the process dying at any    *)
(* point of it                                                             *)
(*                                                                         *)
(* save is <<>> before the first call, then a record: phase says where the *)
(* call is ("csv": to_csv is writing, "metadata": to_csv returned,         *)
(* "metadata_open": write_text opened the sidecar, "returned", "crashed"), *)
(* content is what to_csv writes, written how much of it is in the file    *)
(* (0 nothing, 1 the header, 1 + k the header and k lines).  A call that   *)
(* crashed keeps its record, so that what it left unwritten is known.      *)

\* the first w pieces of a CSV file: the header, then line after line
file_prefix(content, w) ==
    [kind |-> "csv",
     header |-> IF w = 0 THEN <<>> ELSE content.header,
     lines |-> IF w = 0 THEN <<>> ELSE SubSeq(content.lines, 1, w - 1)]

\* how many pieces a CSV file has
pieces(content) == Len(content.lines) + 1

\* the table download_data returns on day n of January 2026: one row a day
\* from the first day on
snapshot_of(n) ==
    DataFrame(REQUIRED_COLUMNS,
              [i \in 1..n |-> [date |-> Timestamp(MakeDate(2026, 1, 1) + i - 1),
                               rate |-> Float(750000 + 1000 * i)]])

\* the attrs of that table
attrs_on(n) ==
    <<[requested_start_date |-> <<2026, 1, 1>>,
       requested_end_date |-> IsoFormat(MakeDate(2026, 1, 1) + n - 1)]>>

\* The days on which the series is downloaded and saved.
SnapshotDays == {1, 2, 3}

\* no call of save_raw_snapshot is under way
NoSaveUnderWay ==
    IF save = <<>> THEN TRUE ELSE save[1].phase \in {"returned", "crashed"}

\* save_raw_snapshot(df) up to the point where to_csv has opened the file:
\* the schema is checked, the frame normalized, the file truncated
save_open(df, attrs) ==
    /\ NoSaveUnderWay
    /\ validate_strict_schema(df)
    /\ \E normalized \in coerce_strict_types_frame(df) :
          /\ normalized.ok
          /\ save' = <<[phase |-> "csv",
                        df |-> normalized.out[1],
                        attrs |-> attrs,
                        content |-> to_csv(normalized.out[1]),
                        written |-> 0]>>
          /\ files' = write_file(files, DEFAULT_RAW_FILE,
                                 file_prefix(to_csv(normalized.out[1]), 0))
    /\ UNCHANGED <<netVars, part, call, run>>

\* to_csv writes the next piece of the file
save_write ==
    /\ save # <<>> /\ save[1].phase = "csv"
    /\ save[1].written < pieces(save[1].content)
    /\ save' = <<[save[1] EXCEPT !.written = @ + 1]>>
    /\ files' = write_file(files, DEFAULT_RAW_FILE,
                           file_prefix(save[1].content, save[1].written + 1))
    /\ UNCHANGED <<netVars, part, call, run>>

\* to_csv closes the file and returns
save_to_csv_returns ==
    /\ save # <<>> /\ save[1].phase = "csv"
    /\ save[1].written = pieces(save[1].content)
    /\ save' = <<[save[1] EXCEPT !.phase = "metadata"]>>
    /\ UNCHANGED <<dlVars, part, call, run>>

\* _write_raw_metadata: the checksum of the file is taken and write_text opens
\* the sidecar, which truncates it
save_open_metadata ==
    /\ save # <<>> /\ save[1].phase = "metadata"
    /\ save' = <<[save[1] EXCEPT !.phase = "metadata_open"]>>
    /\ files' = write_file(files, RAW_METADATA_FILE, [kind |-> "json_partial"])
    /\ UNCHANGED <<netVars, part, call, run>>

\* write_text writes the sidecar and save_raw_snapshot returns
save_write_metadata ==
    /\ save # <<>> /\ save[1].phase = "metadata_open"
    /\ save' = <<[save[1] EXCEPT !.phase = "returned"]>>
    /\ files' = write_raw_metadata(files, DEFAULT_RAW_FILE, save[1].df, save[1].attrs)
    /\ UNCHANGED <<netVars, part, call, run>>

\* the process dies in the middle of save_raw_snapshot: the disk stays as it is
crash ==
    /\ ~NoSaveUnderWay
    /\ save' = <<[save[1] EXCEPT !.phase = "crashed"]>>
    /\ UNCHANGED <<dlVars, part, call, run>>

NextCrash ==
    \/ \E n \in SnapshotDays : save_open(snapshot_of(n), attrs_on(n))
    \/ save_write
    \/ save_to_csv_returns
    \/ save_open_metadata
    \/ save_write_metadata
    \/ crash

SpecCrash == Init /\ [][NextCrash]_vars

-----------------------------------------------------------------------------
(* The claims                                                              *)

Terminal == pc \in {"returned", "raised"}

Raised(kind) == error # <<>> /\ error[1].kind = kind

\* A step in which one urlopen call raises.
AttemptFailedStep == pc = "inflight" /\ nFailed' = nFailed + 1

\* A step in which one urlopen call answers with a payload.
ResponseStep == pc = "inflight" /\ nFailed' = nFailed

C1_State ==
    /\ attempt <= SOAP_MAX_RETRIES
    /\ pc \in {"inflight", "sleep"} => attempt >= 1
    /\ Raised("transport") =>
         /\ pc = "raised"
         /\ attempt = SOAP_MAX_RETRIES
         /\ nFailed >= SOAP_MAX_RETRIES
         /\ last_error \in CaughtErrors
         /\ error[1].endpoint = BANGUAT_WSDL_ENDPOINT
         /\ error[1].from = IsoFormat(ranges[chunk][1])
         /\ error[1].to = IsoFormat(ranges[chunk][2])
         /\ error[1].attempts = SOAP_MAX_RETRIES
         /\ error[1].cause = last_error
         /\ error[1].quoted = <<last_error>>

C1_Step ==
    \* a failed attempt before the last one is followed by another attempt, the
    \* last one by the terminal transport error
    /\ (AttemptFailedStep /\ last_error' \in CaughtErrors /\ error' = <<>>) =>
         (attempt < SOAP_MAX_RETRIES /\ pc' = "sleep" /\ attempt' = attempt)
    /\ (AttemptFailedStep /\ attempt = SOAP_MAX_RETRIES) =>
         (pc' = "raised" /\ error' # <<>> /\ error'[1].kind \in {"transport", "uncaught"})
    \* the first answer ends the attempts for the chunk
    /\ ResponseStep => (response' # <<>> /\ ~(chunk' = chunk /\ nRequests' # nRequests))
    \* one attempt at a time
    /\ (chunk' = chunk /\ attempt' # attempt) =>
         (attempt' = attempt + 1 \/ attempt' = 0)

\* C1: _post_soap_request makes at most SOAP_MAX_RETRIES attempts for a chunk; the
\* first attempt that succeeds ends them; when every attempt fails with a caught
\* error the terminal transport error is raised after exactly SOAP_MAX_RETRIES
\* attempts, naming the endpoint, the chunk range, the attempt count and the last
\* underlying error.
C1_RetryBound == []C1_State /\ [][C1_Step]_vars

\* The second chunk of a call ends in the terminal transport error.
C1_Witness ==
    /\ Raised("transport")
    /\ chunk = 2
    /\ attempt = SOAP_MAX_RETRIES
    /\ error[1].cause = "TimeoutError"

C2_State ==
    /\ \A k \in 1..Len(waits) :
         /\ waits[k] = Min(SOAP_BACKOFF_BASE_SECONDS * (2 ^ (k - 1)),
                           SOAP_BACKOFF_MAX_SECONDS)
         /\ waits[k] <= SOAP_BACKOFF_MAX_SECONDS
         /\ k > 1 => waits[k - 1] <= waits[k]
    \* a wait lies between two attempts
    /\ pc = "inflight" => Len(waits) = attempt - 1
    /\ pc = "sleep" => (Len(waits) = attempt /\ attempt < SOAP_MAX_RETRIES)
    /\ Raised("transport") => Len(waits) = SOAP_MAX_RETRIES - 1
    /\ pc = "returned" => waits = <<>>

C2_Step ==
    \* a wait starts only at a failed attempt that is not the last one
    /\ (Len(waits') > Len(waits) \/ pc' = "sleep") =>
         /\ AttemptFailedStep
         /\ attempt < SOAP_MAX_RETRIES
         /\ pc' = "sleep"
         /\ waits' = Append(waits, waits'[attempt])
    \* and ends in the next attempt of the same chunk
    /\ pc = "sleep" =>
         (pc' = "inflight" /\ attempt' = attempt + 1 /\ chunk' = chunk
          /\ nRequests' = nRequests + 1 /\ waits' = waits)

\* C2: the wait after failed attempt k is min(base * 2^(k-1), ceiling); the waits
\* never decrease and never exceed the ceiling; a wait happens only between two
\* attempts: none before the first, none after a success, none after the last
\* failed attempt.
C2_Backoff == []C2_State /\ [][C2_Step]_vars

\* The wait after the seventh failure: twice 64 seconds, cut to the ceiling.
C2_Witness ==
    /\ pc = "sleep"
    /\ Len(waits) = 7
    /\ waits[6] = 64
    /\ waits[7] = SOAP_BACKOFF_MAX_SECONDS


C3_State ==
    \* a failure leaves no table, no file and no request behind
    /\ error # <<>> =>
         /\ pc = "raised"
         /\ result = <<>>
         /\ DOMAIN files = {}
         /\ outstanding = {}
         /\ ranges # <<>> => requested = 1..chunk
    \* a table is returned only with every chunk fetched and decoded
    /\ (pc = "returned" \/ result # <<>>) =>
         /\ pc = "returned"
         /\ error = <<>>
         /\ result # <<>>
         /\ decoded = Len(ranges)
         /\ requested = 1..Len(ranges)
    /\ DOMAIN files # {} => pc = "returned"
    \* until the call ends nothing is returned or written
    /\ ~Terminal => (result = <<>> /\ DOMAIN files = {} /\ error = <<>>)

C3_Step ==
    \* once the call has failed it does nothing more
    /\ error # <<>> => UNCHANGED <<nRequests, requested, outstanding, result, files, error>>
    \* a transport failure of the last attempt and a decode failure end the call
    /\ (AttemptFailedStep /\ attempt = SOAP_MAX_RETRIES) => error' # <<>>
    /\ (ResponseStep /\ decoded' = decoded) => error' # <<>>

\* C3: acquisition is all-or-nothing: when a chunk fails download_data raises,
\* returns no table, asks for no later chunk and has written no file; it returns
\* a table only when every chunk was fetched and decoded.
C3_AllOrNothing == []C3_State /\ [][C3_Step]_vars

\* The second chunk fails to decode after the first gave rows.
C3_Witness ==
    /\ pc = "raised"
    /\ chunk = 2
    /\ decoded = 1
    /\ all_rows # <<>>
    /\ Raised("bad_venta")
    /\ result = <<>>

ProtocolKinds == {"invalid_xml", "fault", "missing_field", "bad_fecha", "bad_venta"}

\* A Var element the decoder must reject.
IsBadNode(node) ==
    \/ node.fecha = <<>>
    \/ node.venta = <<>>
    \/ ~CanParseDmy(node.fecha[1])
    \/ node.venta[1] \notin {"7.50000", "7.80000"}

\* A response that is a protocol error.
IsProtocolError(payload) ==
    \/ ~payload.wellformed
    \/ payload.fault # <<>>
    \/ \E i \in 1..Len(payload.vars) : IsBadNode(payload.vars[i])

C4_State ==
    /\ Raised("invalid_xml") \/ Raised("fault") \/ Raised("missing_field")
         \/ Raised("bad_fecha") \/ Raised("bad_venta") =>
         /\ pc = "raised"
         /\ outstanding = {}
         /\ response # <<>>
         /\ IsProtocolError(response[1])
    \* while a chunk is fetched or waited for, the last response received (the
    \* previous chunk's) was not a protocol error
    /\ (pc \in {"inflight", "sleep"} /\ response # <<>> /\ decoded = chunk - 1) =>
         ~IsProtocolError(response[1])

C4_Step ==
    \* the response that is a protocol error ends the call at once
    /\ (ResponseStep /\ IsProtocolError(response'[1])) =>
         /\ pc' = "raised"
         /\ error' # <<>>
         /\ error'[1].kind \in ProtocolKinds
         /\ nRequests' = nRequests
         /\ outstanding' = {}
    \* only a caught transport failure leads to a wait and to another attempt
    /\ pc' = "sleep" => (AttemptFailedStep /\ last_error' \in CaughtErrors)
    /\ (chunk' = chunk /\ nRequests' # nRequests) => pc = "sleep"
    /\ Terminal => UNCHANGED <<nRequests, waits, attempt>>

\* C4: protocol errors are never retried: a response that is malformed XML, holds
\* a SOAP fault or has a row with a missing or invalid field ends the acquisition
\* at once, with no wait and no further request; only transport failures lead to
\* another attempt.
C4_NoRetryOnProtocolError == []C4_State /\ [][C4_Step]_vars

\* A malformed response to the third attempt of a chunk.
C4_Witness ==
    /\ Raised("invalid_xml")
    /\ nRequests = 3
    /\ nFailed = 2
    /\ chunk = 1

C5_State ==
    /\ Cardinality(outstanding) <= 1
    /\ \A o \in outstanding :
         /\ o.chunk = chunk
         /\ pc = "inflight"
         /\ o.request.fechainit = format_ddmmyyyy(ranges[chunk][1])
         /\ o.request.fechafin = format_ddmmyyyy(ranges[chunk][2])
    /\ pc = "inflight" => Cardinality(outstanding) = 1
    \* chunk by chunk, in ascending date order
    /\ ranges # <<>> => requested = 1..chunk
    /\ \A i \in 1..(Len(ranges) - 1) : ranges[i][2] < ranges[i + 1][1]
    /\ pc \in {"inflight", "sleep"} => decoded = chunk - 1
    /\ decoded <= chunk
    \* with no failed attempt, one request per calendar year of the range
    /\ (pc = "returned" /\ nFailed = 0) => nRequests = YearOf(end) - YearOf(start) + 1
    /\ (ranges # <<>> /\ nFailed = 0) => nRequests = chunk
    /\ pc = "returned" => chunk = YearOf(end) - YearOf(start) + 1

C5_Step ==
    \* the request of the next chunk follows the decoded response of this one
    /\ chunk' # chunk =>
         /\ chunk' = chunk + 1
         /\ chunk > 0 => (ResponseStep /\ decoded' = decoded + 1 /\ decoded' = chunk)
         /\ nRequests' = nRequests + 1
    /\ nRequests' # nRequests => (nRequests' = nRequests + 1 /\ pc' = "inflight")

\* C5: chunks are processed one after the other in ascending date order: the
\* request of a chunk is issued only after the previous chunk was received and
\* decoded, at most one request is outstanding, and with no failed attempt a call
\* issues exactly one request per calendar year its range touches.
C5_Sequential == []C5_State /\ [][C5_Step]_vars

\* 2025-12-31..2026-01-01 answered at once: two requests.
C5_Witness ==
    /\ pc = "returned"
    /\ nFailed = 0
    /\ nRequests = 2
    /\ YearOf(start) = 2025
    /\ YearOf(end) = 2026

\* C6: for start <= end, _iter_yearly_ranges gives chunks that start at start, end
\* at end, are not empty, lie in one calendar year each, and follow one another
\* with no gap and no overlap.
C6_Partition ==
    \A k \in 1..Len(part) :
        LET s == part[k].first
            e == part[k].last
            r == part[k].ranges
        IN  s <= e =>
              /\ Len(r) >= 1
              /\ r[1][1] = s
              /\ r[Len(r)][2] = e
              /\ \A i \in 1..Len(r) :
                   /\ r[i][1] <= r[i][2]
                   /\ YearOf(r[i][1]) = YearOf(r[i][2])
                   /\ IsoFormat(r[i][1])[1] = IsoFormat(r[i][2])[1]
              /\ \A i \in 1..(Len(r) - 1) : r[i + 1][1] = r[i][2] + 1
              /\ Len(r) = YearOf(e) - YearOf(s) + 1

\* 2023-12-30..2027-01-01: five chunks, the leap year 2024 among them.
C6_Witness ==
    /\ part # <<>>
    /\ IsoFormat(part[1].first) = <<2023, 12, 30>>
    /\ IsoFormat(part[1].last) = <<2027, 1, 1>>
    /\ Len(part[1].ranges) = 5
    /\ part[1].ranges[2] = <<MakeDate(2024, 1, 1), MakeDate(2024, 12, 31)>>
    /\ part[1].ranges[2][2] - part[1].ranges[2][1] = 365


\* The rate of the last row of the given date in decode order.
LastDecoded(rows, isodate) ==
    LET last == CHOOSE i \in 1..Len(rows) :
                    /\ rows[i].date = isodate
                    /\ \A j \in 1..Len(rows) : rows[j].date = isodate => j <= i
    IN  rows[last].rate

\* C7: the table download_data returns has strictly ascending, unique dates, and
\* for a date decoded more than once it keeps the rate of the occurrence that is
\* last in decode order.
C7_LastDecodedWins ==
    pc = "returned" =>
        LET rows == result[1].rows IN
        /\ \A i \in 1..(Len(rows) - 1) : rows[i].date < rows[i + 1].date
        /\ {IsoFormat(rows[i].date) : i \in 1..Len(rows)}
             = {all_rows[i].date : i \in 1..Len(all_rows)}
        /\ \A i \in 1..Len(rows) :
             rows[i].rate = LastDecoded(all_rows, IsoFormat(rows[i].date))

C8_State ==
    \* the zero-rows error: every chunk was requested and decoded, and none gave a row
    /\ Raised("zero_rows") =>
         /\ pc = "raised"
         /\ all_rows = <<>>
         /\ decoded = Len(ranges)
         /\ requested = 1..Len(ranges)
         /\ error[1].from = IsoFormat(start)
         /\ error[1].to = IsoFormat(end)
    \* and it is raised whenever that is so
    /\ (Terminal /\ ranges # <<>> /\ decoded = Len(ranges)) =>
         /\ all_rows = <<>> => Raised("zero_rows")
         /\ all_rows # <<>> => (pc = "returned" /\ error = <<>>)
    /\ pc = "returned" => (all_rows # <<>> /\ result[1].rows # <<>>)

C8_Step ==
    \* a chunk without rows ends a call only as its last chunk
    (ResponseStep /\ ~IsProtocolError(response'[1]) /\ chunk < Len(ranges)) =>
        (error' = <<>> /\ pc' = "inflight" /\ chunk' = chunk + 1)

\* C8: download_data fails with the zero-rows error exactly when the rows decoded
\* over all chunks are empty; a chunk without rows is no error while another
\* chunk gives a row; the check is made after every chunk was requested.
C8_ZeroRows == []C8_State /\ [][C8_Step]_vars

\* The first chunk gave a row and the second gave none: a table is returned.
C8_Witness ==
    /\ pc = "returned"
    /\ Len(ranges) = 2
    /\ response[1].vars = <<>>
    /\ Len(all_rows) = 1

\* A payload with a fault element below its root.
HasFault(payload) == payload.wellformed /\ payload.fault # <<>>

C9_State ==
    (response # <<>> /\ HasFault(response[1]) /\ decoded = chunk - 1) =>
        /\ pc = "raised"
        /\ Raised("fault")
        /\ result = <<>>
        /\ response[1].fault[1].faultstring \notin {<<>>, <<"">>} =>
             error[1].quoted = response[1].fault[1].faultstring
        /\ response[1].fault[1].faultstring \in {<<>>, <<"">>} =>
             error[1].quoted = <<"Unknown SOAP fault.">>

C9_Step ==
    \* no row of a payload with a fault is extracted
    (ResponseStep /\ HasFault(response'[1])) =>
        (all_rows' = all_rows /\ decoded' = decoded /\ pc' = "raised")

\* C9: decoding a payload with a fault element fails with a fault error that
\* carries the fault's message text, before any row is extracted: a payload with
\* a fault and rows gives the fault error and no rows.
C9_FaultFirst == []C9_State /\ [][C9_Step]_vars

\* A payload holding a fault and a row.
C9_Witness ==
    /\ Raised("fault")
    /\ Len(response[1].vars) = 1
    /\ error[1].quoted = <<"Server was unable to process request.">>
    /\ all_rows = <<>>

\* The dates and the endpoint an exception's message holds.
MessageDates(e) == {e.from, e.to}

\* C10 as stated: the fault error of download_data names the endpoint and both
\* requested bounds, start and end, for every range.
C10_RequestedBounds ==
    Raised("fault") =>
        /\ error[1].endpoint = BANGUAT_WSDL_ENDPOINT
        /\ IsoFormat(start) \in MessageDates(error[1])
        /\ IsoFormat(end) \in MessageDates(error[1])

\* C10, amended: the fault error names the endpoint and the bounds of the chunk
\* that was answered with the fault; they are the requested start and end when
\* the range lies in one calendar year.
C10_ChunkBounds ==
    Raised("fault") =>
        /\ error[1].endpoint = BANGUAT_WSDL_ENDPOINT
        /\ error[1].from = IsoFormat(ranges[chunk][1])
        /\ error[1].to = IsoFormat(ranges[chunk][2])
        /\ YearOf(start) = YearOf(end) =>
             (error[1].from = IsoFormat(start) /\ error[1].to = IsoFormat(end))
        /\ chunk = 1 => error[1].from = IsoFormat(start)
        /\ chunk = Len(ranges) => error[1].to = IsoFormat(end)

\* The fault answers the second chunk of 2025-01-01..2026-01-01.
C10_Witness ==
    /\ Raised("fault")
    /\ chunk = 2
    /\ IsoFormat(start) = <<2025, 1, 1>>
    /\ error[1].from = <<2026, 1, 1>>
    /\ error[1].to = <<2026, 1, 1>>

-----------------------------------------------------------------------------
(* The claims about clean, build_features and train_test_split_time        *)

\* the last call was a call of fn that returned
ReturnedFrom(fn) == call # <<>> /\ call[1].fn = fn /\ call[1].ok

\* the index of the row of date d in rows, 0 if there is none
RowOf(rows, d) ==
    IF \E t \in 1..Len(rows) : rows[t].date = d
    THEN CHOOSE t \in 1..Len(rows) : rows[t].date = d
    ELSE 0

\* C11: every output row of build_features has for pnl_next_day the pnl of the
\* next date of the cleaned input, notional * (rate[next(d)] / rate[d] - 1), and
\* consecutive output rows are consecutive rows of the cleaned input, the
\* pnl_next_day of one being the pnl of the next.
C11_TargetAlignment ==
    ReturnedFrom("build_features") =>
        \E cleaned \in clean(call[1].df) :
            /\ cleaned.ok
            /\ LET rows == cleaned.out[1].rows
                   out == call[1].out[1].rows
                   notional == call[1].args[1]
               IN  /\ \A i \in 1..Len(out) :
                        LET t == RowOf(rows, out[i].date)
                        IN  /\ t >= 1 /\ t < Len(rows)
                            /\ out[i].rate = rows[t].rate
                            /\ out[i].pnl_next_day =
                                 Float(notional * ((rows[t + 1].rate.n * Milli)
                                                   \div rows[t].rate.n - Milli))
                   /\ \A i \in 1..(Len(out) - 1) :
                        /\ out[i].pnl_next_day = out[i + 1].pnl
                        /\ RowOf(rows, out[i + 1].date) = RowOf(rows, out[i].date) + 1

\* build_features returned two rows, the first with a loss on its day and a
\* gain on the next.
C11_Witness ==
    /\ ReturnedFrom("build_features")
    /\ Len(call[1].out[1].rows) = 2
    /\ call[1].out[1].rows[1].pnl.n = -390000
    /\ call[1].out[1].rows[1].pnl_next_day.n = 400000
    /\ call[1].out[1].rows[2].pnl.n = 400000

\* the frames clean returns on the inputs
CleanedInputs ==
    UNION {{outcome.out[1] : outcome \in {o \in clean(df) : o.ok}} : df \in FrameInputs}

\* the observations of a cleaned frame up to date d, and the one that follows
UpTo(rows, d) == SelectSeq(rows, LAMBDA r : BeforeOrAt(r.date, d))
Following(rows, d) == SubSeq(rows, Len(UpTo(rows, d)) + 1, Len(UpTo(rows, d)) + 1)

\* C12: when two cleaned inputs agree on every observation up to date d and
\* build_features gives a row for d on both, the two rows are the same in every
\* column but pnl_next_day, and in pnl_next_day too when the inputs agree on
\* the observation that follows d.
C12_NoLeakage ==
    (ReturnedFrom("build_features") /\ call[1].df \in CleanedInputs) =>
        \A y \in CleanedInputs :
            \A other \in build_features(y, call[1].args[1], call[1].args[2]) :
                other.ok =>
                    LET x == call[1].df
                        out == call[1].out[1]
                        outy == other.out[1]
                    IN  \A i \in 1..Len(out.rows), j \in 1..Len(outy.rows) :
                            (/\ out.rows[i].date = outy.rows[j].date
                             /\ UpTo(x.rows, out.rows[i].date) = UpTo(y.rows, out.rows[i].date)) =>
                                /\ \A c \in Cols(out) \ {TARGET_COLUMN} :
                                     out.rows[i][c] = outy.rows[j][c]
                                /\ Following(x.rows, out.rows[i].date)
                                     = Following(y.rows, out.rows[i].date) =>
                                     out.rows[i].pnl_next_day = outy.rows[j].pnl_next_day

\* build_features returned a row for the fourth day of a cleaned five-day
\* series, and another cleaned series that is the same up to that day and
\* differs on the fifth gives a row for that day with another pnl_next_day.
C12_Witness ==
    /\ ReturnedFrom("build_features")
    /\ call[1].df \in CleanedInputs
    /\ call[1].args[2] = <<2>>
    /\ Len(call[1].df.rows) = 5
    /\ Len(call[1].out[1].rows) = 1
    /\ \E y \in CleanedInputs :
          /\ Len(y.rows) = 5
          /\ UpTo(y.rows, call[1].out[1].rows[1].date) = UpTo(call[1].df.rows, call[1].out[1].rows[1].date)
          /\ y.rows[5].rate # call[1].df.rows[5].rate
          /\ \E other \in build_features(y, call[1].args[1], call[1].args[2]) :
                /\ other.ok
                /\ other.out[1].rows[1].date = call[1].out[1].rows[1].date
                /\ other.out[1].rows[1].pnl_next_day # call[1].out[1].rows[1].pnl_next_day

\* the dates of the rows are timestamps in strictly ascending order
StrictlyAscending(rows) ==
    /\ \A i \in 1..Len(rows) : rows[i].date.k = "ts"
    /\ \A i \in 1..(Len(rows) - 1) : rows[i].date.v[1] < rows[i + 1].date.v[1]

\* a row without the target column
Without(df, target_col, i) == [c \in Cols(df) \ {target_col} |-> df.rows[i][c]]

\* C13: on an N-row table with ascending unique dates, a date and a target
\* column and 0 < k < N, train_test_split_time returns the first N-k rows as
\* train and the last k rows as test, in their order, the target column taken
\* out of the feature outputs and given in the target outputs, and every train
\* date is before every test date.
C13_Split ==
    (/\ call # <<>>
     /\ call[1].fn = "train_test_split_time"
     /\ {"date", call[1].args[2]} \subseteq Cols(call[1].df)
     /\ StrictlyAscending(call[1].df.rows)
     /\ 0 < call[1].args[1]
     /\ call[1].args[1] < Len(call[1].df.rows)) =>
        /\ call[1].ok
        /\ LET df == call[1].df
               N == Len(df.rows)
               k == call[1].args[1]
               target_col == call[1].args[2]
               split == call[1].out[1]
           IN  /\ Len(split.x_test.rows) = k /\ Len(split.y_test) = k
               /\ Len(split.x_train.rows) = N - k /\ Len(split.y_train) = N - k
               /\ \A i \in 1..(N - k) :
                    /\ split.x_train.rows[i] = Without(df, target_col, i)
                    /\ split.y_train[i] = df.rows[i][target_col]
               /\ \A i \in 1..k :
                    /\ split.x_test.rows[i] = Without(df, target_col, N - k + i)
                    /\ split.y_test[i] = df.rows[N - k + i][target_col]
               /\ target_col \notin Cols(split.x_train) \cup Cols(split.x_test)
               /\ Cols(split.x_train) = Cols(df) \ {target_col}
               /\ Cols(split.x_test) = Cols(df) \ {target_col}
               /\ \A i \in 1..(N - k), j \in 1..k :
                    split.x_train.rows[i].date.v[1] < split.x_test.rows[j].date.v[1]

\* a three-row table was split into two train rows and one test row
C13_Witness ==
    /\ ReturnedFrom("train_test_split_time")
    /\ Len(call[1].df.rows) = 3
    /\ call[1].args = <<1, TARGET_COLUMN>>
    /\ Len(call[1].out[1].x_train.rows) = 2
    /\ Len(call[1].out[1].x_test.rows) = 1
    /\ call[1].out[1].y_test = <<call[1].df.rows[3].pnl_next_day>>

\* C14: train_test_split_time fails and returns nothing when the target column
\* or the date column is absent, the dates are not ascending, a date is there
\* twice or the table has no more than test_days rows; it never returns an
\* empty train part.
C14_SplitRejects ==
    (call # <<>> /\ call[1].fn = "train_test_split_time") =>
        /\ (\/ call[1].args[2] \notin Cols(call[1].df)
            \/ "date" \notin Cols(call[1].df)
            \/ ~StrictlyAscending(call[1].df.rows)
            \/ Len(call[1].df.rows) <= call[1].args[1]) =>
               (~call[1].ok /\ call[1].out = <<>> /\ call[1].error # "")
        /\ call[1].ok =>
               /\ Len(call[1].out[1].x_train.rows) >= 1
               /\ Len(call[1].out[1].y_train) >= 1

\* the splitter refused a two-row feature table for test_days = 2
C14_Witness ==
    /\ call # <<>>
    /\ call[1].fn = "train_test_split_time"
    /\ ~call[1].ok
    /\ Len(call[1].df.rows) = 2
    /\ call[1].args = <<2, TARGET_COLUMN>>
    /\ StrictlyAscending(call[1].df.rows)

\* the feature table of the end-to-end scenario
ScenarioFeatures ==
    (CHOOSE outcome \in build_features(raw_df(ScenarioRows), DEFAULT_NOTIONAL_USD, FEATURE_LAGS) :
        outcome.ok).out[1]

\* the last call split the feature table of the scenario with test_days = 250
ScenarioSplit ==
    /\ call # <<>>
    /\ call[1].fn = "train_test_split_time"
    /\ Len(call[1].df.rows) = Len(ScenarioFeatures.rows)
    /\ call[1].args = <<DEFAULT_TEST_DAYS, TARGET_COLUMN>>
    /\ call[1].df = ScenarioFeatures

NoMissingValue(df) == \A i \in 1..Len(df.rows) : \A c \in Cols(df) : df.rows[i][c].k # "na"

\* C15 as stated: the 700-row scenario gives a feature table without missing
\* values and a split of 450 train rows and 250 test rows, every train date
\* before every test date.
C15_Split450 ==
    ScenarioSplit =>
        /\ call[1].ok
        /\ NoMissingValue(call[1].df)
        /\ Len(call[1].out[1].x_train.rows) = 450
        /\ Len(call[1].out[1].x_test.rows) = 250
        /\ call[1].out[1].x_train.rows[Len(call[1].out[1].x_train.rows)].date.v[1]
             < call[1].out[1].x_test.rows[1].date.v[1]

\* C15, amended: the 700-row scenario gives a feature table of 638 rows, the
\* cleaned rows without the first 61 and the last, with every lag and rolling
\* column and no missing value, and a split of 388 train rows and 250 test
\* rows, every train date before every test date.
C15_Split388 ==
    /\ (/\ call # <<>>
        /\ call[1].fn = "build_features"
        /\ call[1].args = <<DEFAULT_NOTIONAL_USD, FEATURE_LAGS>>
        /\ call[1].df = raw_df(ScenarioRows)) =>
           /\ call[1].ok
           /\ Len(call[1].out[1].rows) = 638
           /\ Len(call[1].out[1].columns) = 7 + 5 * Len(FEATURE_LAGS)
           /\ NoMissingValue(call[1].out[1])
           /\ call[1].out[1].rows[1].date = Timestamp(MakeDate(2024, 1, 1) + 61)
           /\ call[1].out[1].rows[638].date = Timestamp(MakeDate(2024, 1, 1) + 698)
    /\ ScenarioSplit =>
           /\ call[1].ok
           /\ NoMissingValue(call[1].df)
           /\ Len(call[1].out[1].x_train.rows) = 388
           /\ Len(call[1].out[1].x_test.rows) = 250
           /\ \A i \in 1..388, j \in 1..250 :
                call[1].out[1].x_train.rows[i].date.v[1]
                  < call[1].out[1].x_test.rows[j].date.v[1]

\* the feature table of the scenario was split with test_days = 250
C15_Witness ==
    /\ ScenarioSplit
    /\ call[1].ok
    /\ Len(call[1].df.rows) = 638
    /\ "roll_vol_return_simple_60" \in Cols(call[1].out[1].x_train)

C17_ExactColumns ==
    (call # <<>> /\ call[1].fn = "clean" /\ Cols(call[1].df) # {"date", "rate"}) =>
        (~call[1].ok /\ call[1].out = <<>>)

\* C17, amended: clean fails with the schema error naming the missing columns,
\* and returns no table, on a table that lacks date or rate; columns besides
\* date and rate do not make it fail, and the table it returns has the columns
\* date and rate only.
C17_RequiredColumns ==
    (call # <<>> /\ call[1].fn = "clean") =>
        /\ ({"date", "rate"} \ Cols(call[1].df) # {}) =>
              /\ ~call[1].ok
              /\ call[1].out = <<>>
              /\ call[1].error = "Input data is missing required columns"
              /\ call[1].names = SelectSeq(<<"date", "rate">>, LAMBDA c : c \notin Cols(call[1].df))
        /\ call[1].error = "Input data is missing required columns" =>
              {"date", "rate"} \ Cols(call[1].df) # {}
        /\ call[1].ok =>
              /\ call[1].out[1].columns = <<"date", "rate">>
              /\ \A i \in 1..Len(call[1].out[1].rows) :
                    DOMAIN call[1].out[1].rows[i] = {"date", "rate"}

\* clean returned two rows for a table with the columns date, rate and extra
C17_Witness ==
    /\ ReturnedFrom("clean")
    /\ call[1].df.columns = <<"date", "rate", "extra">>
    /\ Len(call[1].out[1].rows) = 2
    /\ call[1].out[1].columns = <<"date", "rate">>

-----------------------------------------------------------------------------
(* The claims about the snapshot store                                     *)

\* the step loads, with the same path argument, what the step before saved
LoadsWhatWasSaved ==
    /\ call # <<>> /\ call[1].ok
    /\ \/ call[1].fn = "save_raw_snapshot" /\ call'[1].fn = "load_raw"
       \/ call[1].fn = "save_processed" /\ call'[1].fn = "load_processed"
    /\ call'[1].args = call[1].args

Snapshots == {p \in DOMAIN files : files[p].kind = "csv"}

\* the rows of a snapshot file, dates and rates read
RowsOfSnapshot(snapshot) ==
    DataFrame(snapshot.header, convert(read_csv(snapshot).rows))

\* the sidecar file describes the snapshot file: its checksum, its row count
\* and its first and last date
Describes(sidecar, snapshot) ==
    /\ sidecar.kind = "json"
    /\ sidecar.sha256 = compute_sha256(snapshot)
    /\ sidecar.row_count = Len(snapshot.lines)
    /\ sidecar.min_date = min_date(RowsOfSnapshot(snapshot))
    /\ sidecar.max_date = max_date(RowsOfSnapshot(snapshot))

\* C19: after any sequence of save_raw_snapshot calls every snapshot file on
\* disk has a metadata sidecar, a file of its directory, with the checksum,
\* the row count and the first and last date of that snapshot file.
C19_SidecarPerSnapshot ==
    \A p \in Snapshots :
        \E q \in DOMAIN files :
            /\ parent(q) = parent(p)
            /\ Describes(files[q], files[p])

\* C20: one observation per date at every stage: the table download_data
\* returned, every file save_raw_snapshot or save_processed wrote and every
\* table load_raw or load_processed returned has its dates strictly
\* ascending, so sorted and no date twice.
C20_OnePerDate ==
    /\ result # <<>> =>
          \A i \in 1..(Len(result[1].rows) - 1) :
              result[1].rows[i].date < result[1].rows[i + 1].date
    /\ \A p \in DOMAIN files :
          /\ files[p].kind = "csv" => StrictlyAscending(convert(read_csv(files[p]).rows))
          /\ files[p].kind = "parquet" => StrictlyAscending(files[p].rows)
    /\ (ReturnedFrom("load_raw") \/ ReturnedFrom("load_processed")) =>
          StrictlyAscending(call[1].out[1].rows)

-----------------------------------------------------------------------------
(* The claims about the feature store and the pipeline                     *)

\* two rows of the frame have the same day as date
HasDuplicateDate(df) ==
    /\ "date" \in Cols(df)
    /\ \E i, j \in DOMAIN df.rows :
          /\ i < j
          /\ can_to_datetime(df.rows[i].date) /\ can_to_datetime(df.rows[j].date)
          /\ to_datetime(df.rows[i].date) = to_datetime(df.rows[j].date)

\* a feature table as it has to be: no missing value, dates strictly ascending
IsFeatureTable(df) == NoMissingValue(df) /\ StrictlyAscending(df.rows)

\* C21: every feature table build_features returns, save_feature_frame writes
\* or load_feature_frame returns has no missing value in any column and has
\* its dates strictly ascending; save_feature_frame rejects a table that has a
\* missing value or a date twice, or lacks date or pnl_next_day, and writes
\* nothing.
C21_FeatureTables ==
    /\ []((ReturnedFrom("build_features") \/ ReturnedFrom("load_feature_frame")) =>
             IsFeatureTable(call[1].out[1]))
    /\ [](DEFAULT_FEATURES_FILE \in DOMAIN files =>
             IsFeatureTable(read_parquet(files[DEFAULT_FEATURES_FILE])))
    /\ [][(/\ call'[1].fn = "save_feature_frame"
           /\ \/ {"date", "pnl_next_day"} \ Cols(call'[1].df) # {}
              \/ ~NoMissingValue(call'[1].df)
              \/ HasDuplicateDate(call'[1].df)) =>
              (~call'[1].ok /\ files' = files)]_vars

\* save_feature_frame rejected a table with a date twice while the feature
\* file, written before, holds two rows
C21_Witness ==
    /\ call # <<>> /\ call[1].fn = "save_feature_frame" /\ ~call[1].ok
    /\ HasDuplicateDate(call[1].df)
    /\ call[1].error = "Feature frame must contain unique dates."
    /\ DEFAULT_FEATURES_FILE \in DOMAIN files
    /\ Len(files[DEFAULT_FEATURES_FILE].rows) = 2

\* the largest lag
MaxLag(lags) == CHOOSE m \in {lags[i] : i \in 1..Len(lags)} : \A i \in 1..Len(lags) : lags[i] <= m

\* C25: for a cleaned input of N rows and lags with maximum M, build_features
\* returns, when N > M + 2, exactly the N - M - 2 cleaned rows after the first
\* M + 1 and before the last, in order, and fails with the insufficient-rows
\* error when N <= M + 2.
C25_RowsDropped ==
    (/\ call # <<>> /\ call[1].fn = "build_features"
     /\ call[1].df.columns = REQUIRED_COLUMNS
     /\ call[1].args[1] > 0
     /\ validate_lags(call[1].args[2]) # <<>>
     /\ \E cleaned \in clean(call[1].df) : cleaned.ok) =>
        \E cleaned \in clean(call[1].df) :
            /\ cleaned.ok
            /\ LET rows == cleaned.out[1].rows
                   N == Len(rows)
                   M == MaxLag(call[1].args[2])
               IN  IF N > M + 2
                   THEN /\ call[1].ok
                        /\ Len(call[1].out[1].rows) = N - M - 2
                        /\ \A i \in 1..(N - M - 2) :
                              /\ call[1].out[1].rows[i].date = rows[M + 1 + i].date
                              /\ call[1].out[1].rows[i].rate = rows[M + 1 + i].rate
                   ELSE /\ ~call[1].ok
                        /\ call[1].out = <<>>
                        /\ call[1].error =
                              "Insufficient rows after lag/rolling/target construction."

\* build_features returned, of five rows with lags 2, 1, 2, the fourth alone
C25_Witness ==
    /\ call # <<>> /\ call[1].fn = "build_features"
    /\ call[1].df.columns = REQUIRED_COLUMNS
    /\ call[1].ok
    /\ Len(call[1].df.rows) = 5 /\ call[1].args[2] = <<2, 1, 2>>
    /\ Len(call[1].out[1].rows) = 1
    /\ call[1].out[1].rows[1].date = Timestamp(FirstDay + 3)

\* A step in which urlopen raises the HTTPError of an error-status response.
ErrorStatusStep == pc = "inflight" /\ nFailed' = nFailed + 1 /\ http_error' # <<>>

C26_State ==
    \* a fault error comes from the payload _post_soap_request returned
    /\ Raised("fault") =>
         /\ response # <<>> /\ response[1].fault # <<>>
         /\ http_error = <<>>
    \* the HTTPError is the error caught last
    /\ http_error # <<>> => last_error = "HTTPError"

C26_Step ==
    ErrorStatusStep =>
        \* the body goes nowhere
        /\ response' = response /\ decoded' = decoded /\ all_rows' = all_rows
        /\ result' = result
        /\ last_error' = "HTTPError"
        \* before the last attempt: the backoff wait, then the next attempt
        /\ attempt < SOAP_MAX_RETRIES =>
              /\ pc' = "sleep" /\ error' = <<>>
              /\ waits' = Append(waits, Min(SOAP_BACKOFF_BASE_SECONDS * (2 ^ (attempt - 1)),
                                            SOAP_BACKOFF_MAX_SECONDS))
        \* at the last attempt: the terminal transport error
        /\ attempt >= SOAP_MAX_RETRIES =>
              /\ pc' = "raised"
              /\ error' = <<TransportError(ranges[chunk], "HTTPError")>>
              /\ error'[1].attempts = SOAP_MAX_RETRIES

\* C26: an error-status response is handled as a transport error: the attempt
\* is retried after the backoff wait, up to SOAP_MAX_RETRIES attempts, and the
\* last failure raises the terminal transport error; its body is never decoded,
\* and a fault error is raised only for a fault in a payload urlopen returned.
C26_ErrorStatus == []C26_State /\ [][C26_Step]_vars

\* The eighth answer with status 500 and a SOAP fault as body ended the call in
\* the terminal transport error
C26_Witness ==
    /\ Raised("transport")
    /\ error[1].cause = "HTTPError"
    /\ attempt = SOAP_MAX_RETRIES
    /\ http_error # <<>> /\ http_error[1].body.fault # <<>>
    /\ response = <<>>

\* the stages that ran in this call of run(): those that returned and the one
\* that raised
StagesRun == run.done \o (IF run.failed = <<>> THEN <<>> ELSE <<run.failed[1].stage>>)

C22_State ==
    \* after n calls of run() download_data was called n times, the call under
    \* way counting once download_data was reached
    /\ run.downloads = IF run.stage = "download_data" THEN run.n - 1 ELSE run.n
    \* the first stage that ran is download_data, and it ran once
    /\ StagesRun # <<>> =>
         /\ StagesRun[1] = "download_data"
         /\ \A i \in 2..Len(StagesRun) : StagesRun[i] # "download_data"

C22_Step ==
    \* download_data is called before any other stage of the call
    run.downloads' # run.downloads =>
        /\ run.downloads' = run.downloads + 1
        /\ run.n' = run.n
        /\ run.done = <<>> /\ run.failed = <<>>

\* C22: every call of pipeline.run() calls download_data exactly once, before
\* any other stage, whatever files an earlier run left; after n runs
\* download_data has been called n times.
C22_AlwaysRefresh == []C22_State /\ [][C22_Step]_vars

\* The second run has downloaded again while the snapshot, its sidecar and the
\* feature file of the first run are on the disk
C22_Witness ==
    /\ run.n = 2 /\ run.downloads = 2
    /\ run.done = <<"download_data">>
    /\ {DEFAULT_RAW_FILE, RAW_METADATA_FILE, DEFAULT_FEATURES_FILE} \subseteq DOMAIN files

C24_State ==
    /\ run.failed # <<>> =>
         \* run() raised the stage-level error, from the error of the stage
         /\ run.raised # <<>>
         /\ run.raised[1].type = "RuntimeError"
         /\ run.raised[1].cause = run.failed[1].error
         /\ run.raised[1].cause # ""
         /\ run.stage = "raised"
         \* the stages before it returned, none after it ran
         /\ run.done \o <<run.failed[1].stage>> = SubSeq(Stages, 1, Len(run.done) + 1)
         /\ run.printed = <<>>
    \* the completion lines are printed after every stage returned
    /\ run.printed # <<>> => run.done = Stages /\ run.failed = <<>>

C24_Step ==
    \* after the error nothing runs until run() is called again
    run.failed # <<>> /\ run' # run =>
        run.n' = run.n + 1 /\ run.done' = <<>> /\ run.printed' = <<>>

\* C24: when a stage of pipeline.run() fails, run() raises a RuntimeError whose
\* cause is the error of the stage, executes no later stage and prints no
\* completion line.
C24_NothingSwallowed == []C24_State /\ [][C24_Step]_vars

\* The prediction failed after the models were trained and saved
C24_Witness ==
    /\ run.failed # <<>> /\ run.failed[1].stage = "predict"
    /\ run.raised # <<>> /\ run.raised[1].cause = "ValueError raised by predict"
    /\ Len(run.done) = 11

\* the sidecar is on the disk and its checksum is the checksum of the snapshot
\* file
ChecksumMatches ==
    /\ {DEFAULT_RAW_FILE, RAW_METADATA_FILE} \subseteq DOMAIN files
    /\ files[RAW_METADATA_FILE].kind = "json"
    /\ files[RAW_METADATA_FILE].sha256 = compute_sha256(files[DEFAULT_RAW_FILE])

\* the last call of save_raw_snapshot died before it had written all of the
\* snapshot file: the file is short of what the call was writing
InterruptedWrite ==
    /\ save # <<>> /\ save[1].phase = "crashed"
    /\ save[1].written < pieces(save[1].content)
    /\ files[DEFAULT_RAW_FILE] # save[1].content

====
